---- MODULE Spec2Model ----
(***************************************************************************)
(* A model of the megavertex software rasterizer: Renderer (colour and     *)
(* depth buffer, draw_triangle, draw_pixel, clear), Texture::sample,       *)
(* World::add_object / Object::transform, and Camera.                      *)
(*                                                                         *)
(* Numbers.  An f64 is modelled as an exact rational [n, d] in lowest      *)
(* terms with d > 0, extended with the IEEE specials a division by zero    *)
(* produces: [n |-> 1, d |-> 0] is +inf, [n |-> -1, d |-> 0] is -inf and   *)
(* [n |-> 0, d |-> 0] is NaN.  Rounding of finite results is not modelled, *)
(* but for one thing: cos(PI/2) is not 0 in f64 but 6.1e-17, and the code   *)
(* divides by it.  That residue is the infinitesimal eps: a number carries *)
(* its order e in eps, value (n/d) * eps^e, and a sum keeps the term of    *)
(* the lowest order, as the rounded f64 sum does.                          *)
(***************************************************************************)
EXTENDS Integers, Sequences, FiniteSets, TLC

(* ------------------------------ bounds -------------------------------- *)
Width == 4
Height == 2
MaxDraws == 2
MaxObjects == 2
MaxTurn == 2
MaxTilt == 1
MaxMoves == 1
MaxCompose == 2
MaxLineSteps == 12

(* ------------------------- program constants -------------------------- *)
BLACK == 0
MAX_Z == 1000
BLUE == 170
WIRE_DEPTH == 100

(* ------------------------- order of evaluation ------------------------ *)
\* Rust finishes a `let` (or the receiver of a method call) before the code
\* that follows it runs: value is computed first and Next is applied to it.
Then(value, Next(_)) == CHOOSE r \in {Next(v) : v \in {value}} : TRUE

(* ----------------------------- f64 values ----------------------------- *)
Abs(k) == IF k < 0 THEN -k ELSE k
Sign(k) == IF k < 0 THEN -1 ELSE IF k > 0 THEN 1 ELSE 0

RECURSIVE GCD(_, _)
GCD(a, b) == IF b = 0 THEN a ELSE GCD(b, a % b)

\* The f64 with value (n/d) * eps^e (d # 0), in lowest terms; zero has e = 0.
Re(n, d, e) ==
    LET g == GCD(Abs(n), Abs(d))
    IN  IF n = 0 THEN [n |-> 0, d |-> 1, e |-> 0]
        ELSE IF d > 0 THEN [n |-> n \div g, d |-> d \div g, e |-> e]
        ELSE [n |-> (-n) \div g, d |-> (-d) \div g, e |-> e]

R(n, d) == Re(n, d, 0)
F(k) == [n |-> k, d |-> 1, e |-> 0]
NaN == [n |-> 0, d |-> 0, e |-> 0]
Inf(s) == [n |-> s, d |-> 0, e |-> 0]
IsNaN(a) == a.d = 0 /\ a.n = 0
IsInf(a) == a.d = 0 /\ a.n # 0
IsFinite(a) == a.d > 0

RNeg(a) == [a EXCEPT !.n = -a.n]

\* Addition.  A term of a higher order in eps is lost to rounding.
RAdd(a, b) ==
    IF a.d = 0 \/ b.d = 0
    THEN (IF IsNaN(a) \/ IsNaN(b) THEN NaN
          ELSE IF IsInf(a) /\ IsInf(b) THEN (IF a.n = b.n THEN a ELSE NaN)
          ELSE IF IsInf(a) THEN a
          ELSE b)
    ELSE IF a.n = 0 THEN b
    ELSE IF b.n = 0 THEN a
    ELSE IF a.e < b.e THEN a
    ELSE IF b.e < a.e THEN b
    ELSE LET g == GCD(a.d, b.d)
         IN  Re(a.n * (b.d \div g) + b.n * (a.d \div g), a.d * (b.d \div g), a.e)

RSub(a, b) == RAdd(a, RNeg(b))

RMul(a, b) ==
    IF a.d = 0 \/ b.d = 0
    THEN (IF a.n = 0 \/ b.n = 0 THEN NaN ELSE Inf(Sign(a.n) * Sign(b.n)))
    ELSE IF a.n = 0 \/ b.n = 0 THEN F(0)
    ELSE LET g1 == GCD(Abs(a.n), b.d)
             g2 == GCD(Abs(b.n), a.d)
         IN  [n |-> (a.n \div g1) * (b.n \div g2),
              d |-> (a.d \div g2) * (b.d \div g1),
              e |-> a.e + b.e]

\* IEEE division: x/0 is +-inf, 0/0 is NaN, x/inf is 0.
RDiv(a, b) ==
    IF a.d = 0 \/ b.d = 0
    THEN (IF IsNaN(a) \/ IsNaN(b) THEN NaN
          ELSE IF IsInf(a) THEN (IF IsInf(b) THEN NaN
                                 ELSE Inf(Sign(a.n) * (IF b.n < 0 THEN -1 ELSE 1)))
          ELSE F(0))
    ELSE IF b.n = 0 THEN (IF a.n = 0 THEN NaN ELSE Inf(Sign(a.n)))
    ELSE LET g1 == GCD(Abs(a.n), Abs(b.n))
             g2 == GCD(a.d, b.d)
         IN  Re((a.n \div g1) * (b.d \div g2), (a.d \div g2) * (b.n \div g1), a.e - b.e)

\* Comparisons are false as soon as one side is NaN.
RLt(a, b) ==
    IF a.d = 0 \/ b.d = 0
    THEN (IF IsNaN(a) \/ IsNaN(b) THEN FALSE
          ELSE IF IsInf(a) THEN a.n < 0 /\ ~(IsInf(b) /\ b.n < 0)
          ELSE b.n > 0)
    ELSE RSub(a, b).n < 0

RGe(a, b) ==
    IF IsNaN(a) \/ IsNaN(b) THEN FALSE ELSE ~RLt(a, b)

RGt(a, b) == RLt(b, a)

\* The result of a cast that saturates (isize::MAX, usize::MAX) or of a cast
\* of a number of the order of 1/eps: past every bound it is compared with.
Saturated == 1000000

\* `f as isize`: truncation toward zero; NaN gives 0, an infinity saturates.
AsIsize(a) ==
    IF IsNaN(a) \/ a.e > 0 THEN 0
    ELSE IF a.d = 0 \/ a.e < 0 THEN Sign(a.n) * Saturated
    ELSE IF a.n >= 0 THEN a.n \div a.d
    ELSE -((-a.n) \div a.d)

\* `f as usize`: truncation toward zero; negative values and NaN give 0.
AsUsize(a) ==
    IF a.n <= 0 \/ a.e > 0 THEN 0
    ELSE IF a.d = 0 \/ a.e < 0 THEN Saturated
    ELSE a.n \div a.d

Min(a, b) == IF a <= b THEN a ELSE b
Max(a, b) == IF a >= b THEN a ELSE b

RAbs(a) == [a EXCEPT !.n = Abs(a.n)]

\* The largest r in lo .. hi with r * r <= k.
RECURSIVE RootBelow(_, _, _)
RootBelow(k, lo, hi) ==
    IF lo = hi THEN lo
    ELSE LET mid == (lo + hi + 1) \div 2
         IN  IF mid * mid <= k THEN RootBelow(k, mid, hi) ELSE RootBelow(k, lo, mid - 1)

\* The integer whose square is k; the lengths the camera takes are roots of
\* squares.
ISqrt(k) == CHOOSE r \in {RootBelow(k, 0, Min(k, 46340))} : r * r = k

\* f64::sqrt: NaN below zero.
Sqrt(a) ==
    IF IsNaN(a) \/ a.n < 0 THEN NaN
    ELSE IF IsInf(a) THEN a
    ELSE [n |-> ISqrt(a.n), d |-> ISqrt(a.d), e |-> a.e \div 2]

(* ------------------------------- angles ------------------------------- *)
\* An f64 holding an angle in radians: q quarter turns (q * PI/2) plus t times
\* the angle theta0 = atan(3/4) = 0.409666 quarter turns, whose cosine 4/5 and
\* sine 3/5 are rational.
Ang(q, t) == [q |-> q, t |-> t]
AngAdd(a, b) == Ang(a.q + b.q, a.t + b.t)
AngNeg(a) == Ang(-a.q, -a.t)

\* The angle in millionths of a quarter turn, for the comparisons.
AngMicro(a) == (1000000 * a.q) + (409666 * a.t)
AngGt(a, b) == AngMicro(a) > AngMicro(b)
AngLt(a, b) == AngMicro(a) < AngMicro(b)

\* PI / 2.
HALF_PI == Ang(1, 0)

\* cos and sin of t * theta0, by the addition formulas.
RECURSIVE CosTheta(_), SinTheta(_)
CosTheta(t) ==
    IF t = 0 THEN F(1)
    ELSE IF t < 0 THEN CosTheta(-t)
    ELSE RSub(RMul(CosTheta(t - 1), R(4, 5)), RMul(SinTheta(t - 1), R(3, 5)))
SinTheta(t) ==
    IF t = 0 THEN F(0)
    ELSE IF t < 0 THEN RNeg(SinTheta(-t))
    ELSE RAdd(RMul(SinTheta(t - 1), R(4, 5)), RMul(CosTheta(t - 1), R(3, 5)))

\* cos and sin of k exact quarter turns.
QuarterCos(k) == << 1, 0, -1, 0 >>[(k % 4) + 1]
QuarterSin(k) == << 0, 1, 0, -1 >>[(k % 4) + 1]

\* f64::cos.  The f64 PI/2 is eps below the quarter turn, so where the exact
\* cosine of k quarter turns is 0 the f64 one is k * sin * eps.
Cos(a) ==
    IF a.t = 0
    THEN (IF QuarterCos(a.q) # 0 THEN F(QuarterCos(a.q))
          ELSE Re(a.q * QuarterSin(a.q), 1, 1))
    ELSE RSub(RMul(F(QuarterCos(a.q)), CosTheta(a.t)),
              RMul(F(QuarterSin(a.q)), SinTheta(a.t)))

\* f64::sin.  Where the exact sine of k quarter turns is 0 the f64 one is
\* -k * cos * eps.
Sin(a) ==
    IF a.t = 0
    THEN (IF QuarterSin(a.q) # 0 THEN F(QuarterSin(a.q))
          ELSE Re(-(a.q * QuarterCos(a.q)), 1, 1))
    ELSE RAdd(RMul(F(QuarterSin(a.q)), CosTheta(a.t)),
              RMul(F(QuarterCos(a.q)), SinTheta(a.t)))

(* ---------------------------- Vec2 / Vec3 ----------------------------- *)
Vec2(x, y) == [x |-> x, y |-> y]
Vec3(x, y, z) == [x |-> x, y |-> y, z |-> z]

Vec2Scale(v, k) == Vec2(RMul(v.x, k), RMul(v.y, k))
Vec2Add(a, b) == Vec2(RAdd(a.x, b.x), RAdd(a.y, b.y))
Vec2Sub(a, b) == Vec2(RSub(a.x, b.x), RSub(a.y, b.y))
Vec2Dot(a, b) == RAdd(RMul(a.x, b.x), RMul(a.y, b.y))
Vec2From(v) == Vec2(v.x, v.y)

Vec3Scale(v, k) == Vec3(RMul(v.x, k), RMul(v.y, k), RMul(v.z, k))
Vec3Add(a, b) == Vec3(RAdd(a.x, b.x), RAdd(a.y, b.y), RAdd(a.z, b.z))

ORIGIN == Vec3(F(0), F(0), F(0))
X_AXIS == Vec3(F(1), F(0), F(0))
Y_AXIS == Vec3(F(0), F(1), F(0))

Vec3Cross(a, b) ==
    Vec3(RSub(RMul(a.y, b.z), RMul(a.z, b.y)),
         RSub(RMul(a.z, b.x), RMul(a.x, b.z)),
         RSub(RMul(a.x, b.y), RMul(a.y, b.x)))

Vec3Length(v) ==
    Sqrt(RAdd(RAdd(RMul(v.x, v.x), RMul(v.y, v.y)), RMul(v.z, v.z)))

\* A vector left at the length it has.
Vec3Unscaled(v) == v

\* Vec3::normalise: a zero vector gives NaN components.
Vec3Normalise(v) == Vec3Scale(v, RDiv(F(1), Vec3Length(v)))

(* -------------------------------- Mat4 -------------------------------- *)
\* A Mat4 is its four rows, m[i + 1][j + 1] being the Rust m[i][j].
Identity ==
    << << F(1), F(0), F(0), F(0) >>,
       << F(0), F(1), F(0), F(0) >>,
       << F(0), F(0), F(1), F(0) >>,
       << F(0), F(0), F(0), F(1) >> >>

\* The loop over k of Mat4::mult with the sum started at 1.0.
RECURSIVE MultSumFromOne(_, _, _, _, _)
MultSumFromOne(a, b, i, j, k) ==
    IF k = 0 THEN F(1)
    ELSE RAdd(MultSumFromOne(a, b, i, j, k - 1), RMul(a[i][k], b[k][j]))

\* The loop over k of Mat4::mult: the sum, from 0.0, of the first k products of
\* row i of a with column j of b.
RECURSIVE MultSum(_, _, _, _, _)
MultSum(a, b, i, j, k) ==
    IF k = 0 THEN F(0)
    ELSE RAdd(MultSum(a, b, i, j, k - 1), RMul(a[i][k], b[k][j]))

\* The loop over j of Mat4::mult: the first j entries of row i.
RECURSIVE MultRow(_, _, _, _)
MultRow(a, b, i, j) ==
    IF j = 0 THEN << >>
    ELSE Append(MultRow(a, b, i, j - 1), MultSum(a, b, i, j, 4))

\* The loop over i of Mat4::mult: the first i rows.
RECURSIVE MultRows(_, _, _)
MultRows(a, b, i) ==
    IF i = 0 THEN << >>
    ELSE Append(MultRows(a, b, i - 1), MultRow(a, b, i, 4))

\* Mat4::mult with the receiver as the right factor: mat * self.
MatMultSwapped(a, b) == MultRows(b, a, 4)

\* Mat4::mult: self * mat.
MatMult(a, b) == MultRows(a, b, 4)

\* Mat4::translate multiplying on the right: self times the translation matrix.
MatTranslateRight(m, vec) ==
    MatMult(m, << << F(1), F(0), F(0), vec.x >>,
                  << F(0), F(1), F(0), vec.y >>,
                  << F(0), F(0), F(1), vec.z >>,
                  << F(0), F(0), F(0), F(1) >> >>)

\* Mat4::translate: the translation matrix times self.
MatTranslate(m, vec) ==
    MatMult(<< << F(1), F(0), F(0), vec.x >>,
               << F(0), F(1), F(0), vec.y >>,
               << F(0), F(0), F(1), vec.z >>,
               << F(0), F(0), F(0), F(1) >> >>, m)

\* The helpers of Mat4::rotate.
Diagonal(t, p) == RAdd(Cos(t), RMul(RMul(p, p), RSub(F(1), Cos(t))))
EdgePlus(a, b, c, t) == RAdd(RMul(RMul(a, b), RSub(F(1), Cos(t))), RMul(c, Sin(t)))
EdgeMinus(a, b, c, t) == RSub(RMul(RMul(a, b), RSub(F(1), Cos(t))), RMul(c, Sin(t)))

\* Mat4::rotate: the rotation by theta about the normalised axis, times self.
MatRotate(m, axis0, theta) ==
    Then(Vec3Normalise(axis0), LAMBDA axis :
        LET x == axis.x
            y == axis.y
            z == axis.z
        IN  MatMult(<< << Diagonal(theta, x), EdgeMinus(x, y, z, theta),
                          EdgePlus(x, z, y, theta), F(0) >>,
                       << EdgePlus(y, x, z, theta), Diagonal(theta, y),
                          EdgeMinus(y, z, x, theta), F(0) >>,
                       << EdgeMinus(z, x, y, theta), EdgePlus(z, y, x, theta),
                          Diagonal(theta, z), F(0) >>,
                       << F(0), F(0), F(0), F(1) >> >>, m))

\* The loop over j of Mat4::transform: product[i], summed from 0.0, after the
\* first j terms.
RECURSIVE TransformSum(_, _, _, _)
TransformSum(m, vec4, i, j) ==
    IF j = 0 THEN F(0)
    ELSE RAdd(TransformSum(m, vec4, i, j - 1), RMul(vec4[j], m[i][j]))

\* Mat4::transform: the matrix applied to (x, y, z, 1); the fourth component of
\* the product is dropped.
MatTransform(m, vec) ==
    Then(<< vec.x, vec.y, vec.z, F(1) >>, LAMBDA vec4 :
         Vec3(TransformSum(m, vec4, 1, 4), TransformSum(m, vec4, 2, 4),
              TransformSum(m, vec4, 3, 4)))

(* ------------------------------ Texture ------------------------------- *)
\* A Texture value: width, height and the row-major pixel buffer (pixels[i+1]
\* is the Rust pixels[i]).
Tex(w, h, px) == [width |-> w, height |-> h, pixels |-> px]

\* Texture::sample with `if` for `while`: one subtraction only.
WrapOnce(i, len) == IF i > len - 1 THEN i - len ELSE i

\* The `while i > len - 1 { i -= len }` loop of Texture::sample.
RECURSIVE WrapIndex(_, _)
WrapIndex(i, len) == IF i > len - 1 THEN WrapIndex(i - len, len) ELSE i

\* The index Texture::sample reads for coords.
SampleIndex(tex, coords) ==
    LET x == RMul(coords.x, F(tex.width))
        y == RMul(coords.y, F(tex.height))
        i == tex.width * AsUsize(y) + AsUsize(x)
    IN  WrapIndex(i, Len(tex.pixels))

Sample(tex, coords) == tex.pixels[SampleIndex(tex, coords) + 1]

(* ------------------------------ Renderer ------------------------------ *)
VARIABLES
    buffer,        \* Renderer.buffer: pixel index -> colour
    depth_buffer,  \* Renderer.depth_buffer: row -> column -> depth
    panic,         \* TRUE once an index out of range has aborted the program
    sampled,       \* history: the Texture::sample calls of the last draw_triangle
    calls,         \* history: the drawing calls made since the last clear
    lookup,        \* the last Texture::sample call: texture, coords, index, result
    returned,      \* the last call of a method that only returns a value: op, args, out
    fluent,        \* a Mat4 a caller composes fluently: m, and the last call that made it
    world,         \* World: objects and time
    placed,        \* history: the arguments of the add_object calls, in order
    camera,        \* Camera: pos, forward, right, up, rot
    turned,        \* history: the last Camera::rotate call, rot before it and offset
    moves          \* history: the number of Camera::translate calls made

\* Renderer.centre, set by Renderer::new.
Centre == Vec3(R(Width, 2), R(Height, 2), F(0))

ClearBuffer == [i \in 0 .. (Width * Height - 1) |-> BLACK]
ClearDepth == [y \in 0 .. (Height - 1) |-> [x \in 0 .. (Width - 1) |-> F(-MAX_Z)]]

\* The renderer's mutable state as one value, threaded through the drawing code.
RState(b, d, p, s) == [buffer |-> b, depth_buffer |-> d, panic |-> p, sampled |-> s]

\* Renderer::draw_pixel.  The two casts saturate, the colour buffer is indexed
\* first and the depth buffer second; an index out of range aborts the program
\* at that point, with the writes before it already made.
DrawPixel(st, pixel, col) ==
    LET ix == AsUsize(pixel.x)
        iy == AsUsize(pixel.y)
        i == (Width * iy) + ix
    IN  IF st.panic THEN st
        ELSE IF i >= Width * Height THEN [st EXCEPT !.panic = TRUE]
        ELSE IF iy >= Height \/ ix >= Width
             THEN [st EXCEPT !.buffer[i] = col, !.panic = TRUE]
        ELSE [st EXCEPT !.buffer[i] = col, !.depth_buffer[iy][ix] = pixel.z]

min3(a, b, c) == Min(AsIsize(a), Min(AsIsize(b), AsIsize(c)))
max3(a, b, c) == Max(AsIsize(a), Max(AsIsize(b), AsIsize(c)))

\* get_barycentric with the weights of b and c exchanged.
GetBarycentricSwapped(a, b, c, p) ==
    LET ab == Vec2Sub(b, a)
        ac == Vec2Sub(c, a)
        ap == Vec2Sub(p, a)
        d00 == Vec2Dot(ab, ab)
        d01 == Vec2Dot(ab, ac)
        d11 == Vec2Dot(ac, ac)
        d20 == Vec2Dot(ap, ab)
        d21 == Vec2Dot(ap, ac)
        denom == RSub(RMul(d00, d11), RMul(d01, d01))
        v == RDiv(RSub(RMul(d11, d20), RMul(d01, d21)), denom)
        w == RDiv(RSub(RMul(d00, d21), RMul(d01, d20)), denom)
        u == RSub(RSub(F(1), v), w)
    IN  [u |-> u, v |-> w, w |-> v]

\* get_barycentric with u = 1.0 - v.
GetBarycentricNoW(a, b, c, p) ==
    LET ab == Vec2Sub(b, a)
        ac == Vec2Sub(c, a)
        ap == Vec2Sub(p, a)
        d00 == Vec2Dot(ab, ab)
        d01 == Vec2Dot(ab, ac)
        d11 == Vec2Dot(ac, ac)
        d20 == Vec2Dot(ap, ab)
        d21 == Vec2Dot(ap, ac)
        denom == RSub(RMul(d00, d11), RMul(d01, d01))
        v == RDiv(RSub(RMul(d11, d20), RMul(d01, d21)), denom)
        w == RDiv(RSub(RMul(d00, d21), RMul(d01, d20)), denom)
        u == RSub(F(1), v)
    IN  [u |-> u, v |-> v, w |-> w]

\* get_barycentric: the weights of p against the triangle a, b, c.
GetBarycentric(a, b, c, p) ==
    LET ab == Vec2Sub(b, a)
        ac == Vec2Sub(c, a)
        ap == Vec2Sub(p, a)
        d00 == Vec2Dot(ab, ab)
        d01 == Vec2Dot(ab, ac)
        d11 == Vec2Dot(ac, ac)
        d20 == Vec2Dot(ap, ab)
        d21 == Vec2Dot(ap, ac)
        denom == RSub(RMul(d00, d11), RMul(d01, d01))
        v == RDiv(RSub(RMul(d11, d20), RMul(d01, d21)), denom)
        w == RDiv(RSub(RMul(d00, d21), RMul(d01, d20)), denom)
        u == RSub(RSub(F(1), v), w)
    IN  [u |-> u, v |-> v, w |-> w]

\* The three raster points of draw_triangle: x and y scaled by the width and
\* moved to the centre of the screen, z left alone.
RasterPoint(vec) ==
    LET scaled == Vec3Scale(vec, F(Width))
        centred == Vec3Add(scaled, Centre)
    IN  Vec3(centred.x, centred.y, vec.z)

RasterPoints(vertices) == [k \in 1 .. 3 |-> RasterPoint(vertices[k])]

\* The texture coordinate draw_triangle computes for the weights bary.
TexXY(tex_coords, bary) ==
    Vec2Add(Vec2Add(Vec2Add(tex_coords[1],
                            Vec2Scale(tex_coords[1], bary.u)),
                    Vec2Scale(tex_coords[2], bary.v)),
            Vec2Scale(tex_coords[3], bary.w))

\* The interpolated point of draw_triangle (only z is used).
PointExactZ(rp, bary) ==
    RAdd(RAdd(RMul(rp[1].z, bary.u), RMul(rp[2].z, bary.v)), RMul(rp[3].z, bary.w))

\* The fill pass with no depth test: the last fragment drawn wins.
DepthSkipNever(z, stored) == FALSE

\* The fill pass with a strict depth test: equal depths are skipped too.
DepthSkipEqual(z, stored) == ~RLt(stored, z)

\* The depth test of the fill pass: TRUE when the fragment is skipped.
DepthSkip(z, stored) == RLt(z, stored)

\* The inside test written as `!(u < 0.0) && !(v < 0.0) && !(w < 0.0)`, which
\* a NaN passes.
InsideNotNegative(bary) ==
    ~RLt(bary.u, F(0)) /\ ~RLt(bary.v, F(0)) /\ ~RLt(bary.w, F(0))

\* The inside test with the third weight forgotten.
InsideNoW(bary) == RGe(bary.u, F(0)) /\ RGe(bary.v, F(0))

\* The inside test of the fill pass.
Inside(bary) == RGe(bary.u, F(0)) /\ RGe(bary.v, F(0)) /\ RGe(bary.w, F(0))

\* One iteration of the fill loop of draw_triangle, at the pixel (x, y).
\* Reading depth_buffer[y][x] out of range aborts the program.
FillPixel(st, rp, texture, tex_coords, x, y) ==
    LET point == Vec2(F(x), F(y))
        bary == GetBarycentric(Vec2From(rp[1]), Vec2From(rp[2]), Vec2From(rp[3]), point)
        z == PointExactZ(rp, bary)
        tex_xy == TexXY(tex_coords, bary)
        col == Sample(texture, tex_xy)
    IN  IF st.panic THEN st
        ELSE IF ~Inside(bary) THEN st
        ELSE IF y \notin DOMAIN st.depth_buffer \/ x \notin DOMAIN st.depth_buffer[y]
             THEN [st EXCEPT !.panic = TRUE]
        ELSE IF DepthSkip(z, st.depth_buffer[y][x]) THEN st
        ELSE DrawPixel([st EXCEPT !.sampled = Append(@, [x |-> x, y |-> y, coords |-> tex_xy])],
                       Vec3(F(x), F(y), z), col)

\* The fill loops `for x in x_min..x_max { for y in y_min..y_max {..} }`: k of
\* the n iterations are done, ny is the length of a column.
RECURSIVE FillLoop(_, _, _, _, _, _, _, _, _)
FillLoop(st, rp, texture, tex_coords, x_min, y_min, ny, k, n) ==
    IF st.panic \/ k = n THEN st
    ELSE FillLoop(FillPixel(st, rp, texture, tex_coords,
                            x_min + (k \div ny), y_min + (k % ny)),
                  rp, texture, tex_coords, x_min, y_min, ny, k + 1, n)

\* The behind-camera test made on the first vertex only.
CulledFirstOnly(vertices) == RGe(vertices[1].z, F(0))

\* The behind-camera test made while the raster points are built.
Culled(vertices) == \E k \in 1 .. 3 : RGe(vertices[k].z, F(0))

\* The bounding box with x_max and y_max not clamped to the screen.
BoxNoUpper(rp) ==
    [x_min |-> Max(0, min3(rp[1].x, rp[2].x, rp[3].x)),
     x_max |-> max3(rp[1].x, rp[2].x, rp[3].x),
     y_min |-> Max(0, min3(rp[1].y, rp[2].y, rp[3].y)),
     y_max |-> max3(rp[1].y, rp[2].y, rp[3].y)]

\* The bounding box of the raster points, clamped to the screen.
Box(rp) ==
    [x_min |-> Max(0, min3(rp[1].x, rp[2].x, rp[3].x)),
     x_max |-> Min(Width, max3(rp[1].x, rp[2].x, rp[3].x)),
     y_min |-> Max(0, min3(rp[1].y, rp[2].y, rp[3].y)),
     y_max |-> Min(Height, max3(rp[1].y, rp[2].y, rp[3].y))]

\* Renderer::draw_triangle (WIREFRAME is false in this build).
DrawTriangle(st, vertices, texture, tex_coords) ==
    LET rp == RasterPoints(vertices)
        b == Box(rp)
        st0 == [st EXCEPT !.sampled = << >>]
    IN  IF Culled(vertices) THEN st0
        ELSE IF b.x_max < b.x_min \/ b.y_max < b.y_min THEN st0
        ELSE FillLoop(st0, rp, texture, tex_coords, b.x_min, b.y_min,
                      b.y_max - b.y_min, 0, (b.x_max - b.x_min) * (b.y_max - b.y_min))

\* The loop of Renderer::draw_line at the position (x, y), n positions having
\* been visited before it.  The result holds the renderer, the last position
\* visited, the number of positions visited and how the loop was left: by a
\* break ("done"), by a panic of draw_pixel ("panic"), or not yet after
\* MaxLineSteps positions ("running").
RECURSIVE DrawLineLoop(_, _, _, _, _, _, _, _, _, _)
DrawLineLoop(st, b, dx, dy, sx, sy, x, y, err, n) ==
    Then(IF RGt(x, F(0)) /\ RGt(y, F(0)) THEN DrawPixel(st, Vec3(x, y, F(-WIRE_DEPTH)), BLUE)
         ELSE st, LAMBDA st1 :
    Then(RMul(err, F(2)), LAMBDA err2 :
        LET left(how) == [st |-> st1, x |-> x, y |-> y, steps |-> n + 1, how |-> how]
            step_x == RGe(err2, dy)
            step_y == RGe(dx, err2)
            err_x == IF step_x THEN RAdd(err, dy) ELSE err
        IN  IF st1.panic THEN left("panic")
            ELSE IF x = b.x /\ y = b.y THEN left("done")
            ELSE IF step_x /\ x = b.x THEN left("done")
            ELSE IF step_y /\ y = b.y THEN left("done")
            ELSE IF n + 1 >= MaxLineSteps THEN left("running")
            ELSE DrawLineLoop(st1, b, dx, dy, sx, sy,
                              IF step_x THEN RAdd(x, sx) ELSE x,
                              IF step_y THEN RAdd(y, sy) ELSE y,
                              IF step_y THEN RAdd(err_x, dx) ELSE err_x,
                              n + 1)))

\* Renderer::draw_line.
DrawLine(st, a, b) ==
    LET dx == RAbs(RSub(b.x, a.x))
        dy == RNeg(RAbs(RSub(b.y, a.y)))
        sx == IF RLt(a.x, b.x) THEN F(1) ELSE F(-1)
        sy == IF RLt(a.y, b.y) THEN F(1) ELSE F(-1)
    IN  DrawLineLoop(st, b, dx, dy, sx, sy, a.x, a.y, RAdd(dx, dy), 0)

(* --------------------------- Object / World --------------------------- *)
Face(vertices, tex_coords, normals) ==
    [vertices |-> vertices, tex_coords |-> tex_coords, normals |-> normals]

\* An Object value; the lists are indexed from 0 in the faces, as in the code.
Object(vertices, tex_coords, faces, texture, transformation) ==
    [vertices |-> vertices, tex_coords |-> tex_coords, normals |-> << >>,
     faces |-> faces, texture |-> texture, transformation |-> transformation]

\* Object::transform with an assignment for the product.
ObjectTransformSet(obj, mat) == [obj EXCEPT !.transformation = mat]

\* Object::transform.
ObjectTransform(obj, mat) ==
    [obj EXCEPT !.transformation = MatMult(obj.transformation, mat)]

\* World::new.
WorldNew == [objects |-> << >>, time |-> F(0)]

\* World::add_object, on the World value.
WorldAddObject(w, obj, pos) ==
    [w EXCEPT !.objects = Append(@, ObjectTransform(obj, MatTranslate(Identity, pos)))]

(* ------------------------------- Camera ------------------------------- *)
\* Camera::recalc_vectors.
RecalcVectors(cam) ==
    Then(Vec3Normalise(Vec3(RMul(Cos(cam.rot.y), Cos(cam.rot.x)),
                            Sin(cam.rot.x),
                            RMul(Sin(cam.rot.y), Cos(cam.rot.x)))), LAMBDA forward :
    Then(Vec3Normalise(Vec3Cross(Y_AXIS, forward)), LAMBDA right :
    Then(Vec3Normalise(Vec3Cross(forward, right)), LAMBDA up :
        [cam EXCEPT !.forward = forward, !.right = right, !.up = up])))

\* Camera::new.
CameraNew(pos) ==
    RecalcVectors([pos |-> pos, forward |-> ORIGIN, right |-> X_AXIS, up |-> Y_AXIS,
                   rot |-> Vec3(Ang(0, 0), AngNeg(HALF_PI), Ang(0, 0))])

\* Camera::look_at.
LookAt(cam) ==
    LET rotation == << << cam.right.x, cam.right.y, cam.right.z, F(0) >>,
                       << cam.up.x, cam.up.y, cam.up.z, F(0) >>,
                       << cam.forward.x, cam.forward.y, cam.forward.z, F(0) >>,
                       << F(0), F(0), F(0), F(1) >> >>
    IN  Then(MatTranslate(Identity, cam.pos), LAMBDA translation :
             MatMult(rotation, translation))

\* Camera::translate without `translation.y = 0.0`: the move follows the pitch.
CameraTranslateFree(cam, x, z) ==
    Then(Vec3Scale(Vec3Normalise(cam.forward), x), LAMBDA translation :
    Then(Vec3Add(cam.pos, translation), LAMBDA pos1 :
        [cam EXCEPT !.pos = Vec3Add(pos1, Vec3Scale(cam.right, z))]))

\* Camera::translate.
CameraTranslate(cam, x, z) ==
    Then(Vec3(cam.forward.x, F(0), cam.forward.z), LAMBDA flat :
    Then(Vec3Scale(Vec3Normalise(flat), x), LAMBDA translation :
    Then(Vec3Add(cam.pos, translation), LAMBDA pos1 :
        [cam EXCEPT !.pos = Vec3Add(pos1, Vec3Scale(cam.right, z))])))

\* The sum of two rotation vectors (Vec3 + Vec3 on angles).
RotAdd(a, b) == Vec3(AngAdd(a.x, b.x), AngAdd(a.y, b.y), AngAdd(a.z, b.z))

\* The pitch clamp of Camera::rotate without its lower bound.
ClampPitchUpperOnly(x) == IF AngGt(x, HALF_PI) THEN HALF_PI ELSE x

\* The pitch clamp of Camera::rotate.
ClampPitch(x) ==
    IF AngGt(x, HALF_PI) THEN HALF_PI
    ELSE IF AngLt(x, AngNeg(HALF_PI)) THEN AngNeg(HALF_PI)
    ELSE x

\* Camera::rotate.
CameraRotate(cam, offset) ==
    Then(RotAdd(cam.rot, offset), LAMBDA rot :
        RecalcVectors([cam EXCEPT !.rot = Vec3(ClampPitch(rot.x), rot.y, rot.z)]))

\* The time argument of render_world is modelled by the angle 0.05 * time;
\* time * 0.1 is twice that.
Spin(time) == time
Bounce(time) == AngAdd(time, time)

\* The screen vertex with the division left out where the camera-space z is
\* not below 0.
ScreenVertexGuarded(cam, object, vertex, time) ==
    Then(MatRotate(Identity, Vec3(F(0), F(1), F(0)), Spin(time)), LAMBDA spin :
    Then(MatTransform(spin, vertex), LAMBDA p1 :
    Then(RAdd(F(-1), RMul(RAbs(Sin(Bounce(time))), F(5))), LAMBDA y :
    Then(MatTranslate(Identity, Vec3(F(0), y, F(0))), LAMBDA bounce :
    Then(MatTransform(bounce, p1), LAMBDA p2 :
    Then(MatMult(Identity, object.transformation), LAMBDA to_world :
    Then(MatTransform(to_world, p2), LAMBDA p3 :
    Then(LookAt(cam), LAMBDA to_camera :
    Then(MatTransform(to_camera, p3), LAMBDA p4 :
        IF RGe(p4.z, F(0)) THEN p4
        ELSE LET p5 == Vec3Scale(p4, RDiv(F(1), p4.z))
             IN  Vec3(p5.x, p5.y, p4.z))))))))))

\* The screen vertex render_world computes for a vertex of an object.
ScreenVertex(cam, object, vertex, time) ==
    Then(MatRotate(Identity, Vec3(F(0), F(1), F(0)), Spin(time)), LAMBDA spin :
    Then(MatTransform(spin, vertex), LAMBDA p1 :
    Then(RAdd(F(-1), RMul(RAbs(Sin(Bounce(time))), F(5))), LAMBDA y :
    Then(MatTranslate(Identity, Vec3(F(0), y, F(0))), LAMBDA bounce :
    Then(MatTransform(bounce, p1), LAMBDA p2 :
    Then(MatMult(Identity, object.transformation), LAMBDA to_world :
    Then(MatTransform(to_world, p2), LAMBDA p3 :
    Then(LookAt(cam), LAMBDA to_camera :
    Then(MatTransform(to_camera, p3), LAMBDA p4 :
        LET p5 == Vec3Scale(p4, RDiv(F(1), p4.z))
        IN  Vec3(p5.x, p5.y, p4.z))))))))))

\* The arguments of the draw_triangle call render_world makes for a face.
FaceArgs(cam, object, face, time) ==
    LET face_vertices(k) == object.vertices[face.vertices[k] + 1]
        face_coords(k) == object.tex_coords[face.tex_coords[k] + 1]
    IN  << << ScreenVertex(cam, object, face_vertices(1), time),
              ScreenVertex(cam, object, face_vertices(2), time),
              ScreenVertex(cam, object, face_vertices(3), time) >>,
           object.texture,
           << face_coords(1), face_coords(2), face_coords(3) >> >>

\* The indices of the face are inside the lists of the object.
FaceInRange(object, face) ==
    /\ \A k \in 1 .. 3 : face.vertices[k] < Len(object.vertices)
    /\ \A k \in 1 .. 3 : face.tex_coords[k] < Len(object.tex_coords)

\* The body of the face loop of render_world; st carries the renderer and the
\* history of its calls.  An index out of range aborts the program.
RenderFace(st, cam, object, face, time) ==
    IF st.panic THEN st
    ELSE IF ~FaceInRange(object, face) THEN [st EXCEPT !.panic = TRUE]
    ELSE Then(FaceArgs(cam, object, face, time), LAMBDA args :
             [DrawTriangle(st, args[1], args[2], args[3])
                 EXCEPT !.calls = Append(st.calls, [op |-> "draw_triangle", args |-> args])])

\* `for face in &object.faces`: k of the faces are done.
RECURSIVE RenderFaces(_, _, _, _, _)
RenderFaces(st, cam, object, time, k) ==
    IF st.panic \/ k = Len(object.faces) THEN st
    ELSE RenderFaces(RenderFace(st, cam, object, object.faces[k + 1], time),
                     cam, object, time, k + 1)

\* The object loop of render_world run from the last object to the first.
RECURSIVE RenderObjectsReversed(_, _, _, _, _)
RenderObjectsReversed(st, cam, objects, time, k) ==
    IF st.panic \/ k = Len(objects) THEN st
    ELSE RenderObjectsReversed(RenderFaces(st, cam, objects[Len(objects) - k], time, 0),
                               cam, objects, time, k + 1)

\* `for object in &world.objects`: k of the objects are done.
RECURSIVE RenderObjects(_, _, _, _, _)
RenderObjects(st, cam, objects, time, k) ==
    IF st.panic \/ k = Len(objects) THEN st
    ELSE RenderObjects(RenderFaces(st, cam, objects[k + 1], time, 0),
                       cam, objects, time, k + 1)

\* Camera::render_world.
RenderWorld(st, cam, w, time) == RenderObjects(st, cam, w.objects, time, 0)

(* --------------------------- drawing inputs --------------------------- *)
\* A vertex in the normalised coordinates draw_triangle takes, x and y in
\* eighths; z is the camera-space depth.
P(kx, ky) == Vec2(R(kx, 8), R(ky, 8))
WithZ(shape, zs) == [k \in 1 .. 3 |-> Vec3(shape[k].x, shape[k].y, F(zs[k]))]

\* Triangles that cover pixels of the screen.
ShapeBig == << P(-6, -4), P(14, -4), P(-6, 8) >>
ShapeVertex == << P(-2, -2), P(2, -2), P(-2, 0) >>
ShapeHalf == << P(-5, -3), P(1, -3), P(-5, 3) >>
OnShapes == {ShapeBig, ShapeHalf}

\* Triangles that lie off one side of the screen, or beyond a corner of it.
OffLeft == << P(-10, -2), P(-8, 0), P(-8, -2) >>
OffLeftFrac == << P(-5, -2), P(-5, 0), P(-7, -1) >>
OffRight == << P(4, -2), P(4, 0), P(6, -1) >>
OffTopFrac == << P(-2, -3), P(0, -3), P(-1, -5) >>
OffBottom == << P(-2, 2), P(0, 2), P(-1, 4) >>
OffCorner == << P(-6, 13), P(11, -4), P(11, 13) >>
OffShapes == {OffLeft, OffLeftFrac, OffRight, OffTopFrac, OffBottom, OffCorner}

\* Three collinear points.
ShapeLine == << P(-4, -2), P(-2, -2), P(0, -2) >>

ZNear == << -1, -1, -1 >>
ZSlope == << -1, -3, -2 >>
ZFar == << -1001, -1001, -1001 >>
ZFarther == << -1002, -1002, -1002 >>
DrawnZ == {ZNear, ZSlope, ZFar, ZFarther}
BehindZ == {<< 0, -1, -1 >>, << -1, 1, -1 >>, << -1, -1, 0 >>}

TexA == Tex(2, 2, << 1, 2, 3, 4 >>)
TexB == Tex(1, 1, << 5 >>)
CoordsUnit == << P(0, 0), P(8, 0), P(0, 8) >>
CoordsOff == << P(4, 0), P(8, 4), P(0, 8) >>
Skins == {<< TexA, CoordsOff >>, << TexB, CoordsUnit >>}

\* The arguments of the draw_triangle calls that are tried.
Triangles ==
    {<< WithZ(s, z), k[1], k[2] >> : s \in OnShapes, z \in DrawnZ, k \in Skins}
    \cup {<< WithZ(ShapeVertex, ZNear), TexA, CoordsOff >>}
    \cup {<< WithZ(s, ZNear), TexA, CoordsUnit >> : s \in OffShapes \cup {ShapeLine}}
    \cup {<< WithZ(ShapeBig, z), TexA, CoordsUnit >> : z \in BehindZ}

\* The raster points draw_line is called with (z is not read): pixel centres
\* of the screen, points between them, and points off the screen.
LineEnds ==
    {Vec3(R(x, 2), R(y, 2), F(-1)) :
        x \in {2, 3, 5, 6}, y \in {2, 3}} \cup
    {Vec3(F(-1), F(1), F(-1)), Vec3(F(1), F(-2), F(-1)), Vec3(F(Width + 1), F(1), F(-1))}

\* The arguments of the direct draw_pixel calls that are tried (as write_text
\* and other callers make them): pixels on and off the screen.
Pixels ==
    {<< Vec3(R(x, 2), R(y, 2), F(-5)), 9 >> :
        x \in {-2, 1, 2 * Width}, y \in {1, 2 * Height}}

\* Triangles with no area whose bounding box holds pixels: three points on a
\* slanted line through pixel centres, three on a steeper line between them,
\* and two coincident points with a third.
ShapeDiagonal == << P(-4, -2), P(0, 0), P(4, 2) >>
ShapeSteep == << P(-3, -2), P(-2, 0), P(-1, 2) >>
ShapeDouble == << P(-4, -2), P(-4, -2), P(4, 2) >>
\* Three coincident points.
ShapePoint == << P(-2, -1), P(-2, -1), P(-2, -1) >>
FlatShapes == {ShapeDiagonal, ShapeSteep, ShapeDouble, ShapePoint, ShapeLine}

\* A finite coordinate of the order of 1/eps: k / eps.
Huge(k) == Re(k, 1, -1)

\* Triangles with huge coordinates: around the screen, off one corner of it,
\* and with one vertex far away.
ShapeHugeAround ==
    << Vec2(Huge(-1), Huge(-1)), Vec2(Huge(3), Huge(-1)), Vec2(Huge(-1), Huge(3)) >>
ShapeHugeAway ==
    << Vec2(Huge(1), Huge(1)), Vec2(Huge(2), Huge(1)), Vec2(Huge(1), Huge(2)) >>
ShapeHugeVertex == << P(-6, -4), Vec2(Huge(1), R(-1, 2)), P(-6, 8) >>
HugeShapes == {ShapeHugeAround, ShapeHugeAway, ShapeHugeVertex}

\* A triangle whose right edge is half a pixel past the column 3: the pixel
\* (3, 0) is strictly inside it.
ShapeInner == << P(-5, -3), P(3, -3), P(3, 1) >>

\* Every vertex at the depth clear() stores.
ZSentinel == << -1000, -1000, -1000 >>

\* The arguments of the draw_triangle calls tried on the fill pass.
FillTriangles ==
    Triangles
    \cup {<< WithZ(s, z), TexA, CoordsUnit >> : s \in FlatShapes, z \in {ZNear, ZSlope}}
    \cup {<< WithZ(s, ZNear), TexB, CoordsUnit >> : s \in HugeShapes}
    \cup {<< WithZ(s, ZSentinel), TexB, CoordsUnit >> : s \in OnShapes}
    \cup {<< WithZ(ShapeInner, z), TexB, CoordsUnit >> : z \in {ZNear, ZSlope}}

(* ------------------------------ actions ------------------------------- *)
Call(op, args) == [op |-> op, args |-> args]

Store(st) ==
    /\ buffer' = st.buffer
    /\ depth_buffer' = st.depth_buffer
    /\ panic' = st.panic
    /\ sampled' = st.sampled

\* Renderer::new: the buffers are allocated by clear().
RendererInit ==
    /\ buffer = ClearBuffer
    /\ depth_buffer = ClearDepth
    /\ panic = FALSE
    /\ sampled = << >>
    /\ calls = << >>

\* clear() resetting the colour buffer only.
ClearColourOnly ==
    /\ ~panic
    /\ buffer' = ClearBuffer
    /\ sampled' = << >>
    /\ calls' = << >>
    /\ UNCHANGED << depth_buffer, panic >>

\* Renderer::clear.
Clear ==
    /\ ~panic
    /\ buffer' = ClearBuffer
    /\ depth_buffer' = ClearDepth
    /\ sampled' = << >>
    /\ calls' = << >>
    /\ UNCHANGED panic

\* A call of Renderer::draw_triangle.
DrawTriangleCall(vertices, texture, tex_coords) ==
    /\ ~panic
    /\ Len(calls) < MaxDraws
    /\ Store(DrawTriangle(RState(buffer, depth_buffer, panic, sampled),
                          vertices, texture, tex_coords))
    /\ calls' = Append(calls, Call("draw_triangle", << vertices, texture, tex_coords >>))

\* A call of Renderer::draw_pixel.
DrawPixelCall(pixel, col) ==
    /\ ~panic
    /\ Len(calls) < MaxDraws
    /\ Store(DrawPixel(RState(buffer, depth_buffer, panic, << >>), pixel, col))
    /\ calls' = Append(calls, Call("draw_pixel", << pixel, col >>))

\* A call of Renderer::draw_line, as draw_triangle makes it with WIREFRAME set.
DrawLineCall(a, b) ==
    /\ ~panic
    /\ Len(calls) < MaxDraws
    /\ \E line \in {DrawLine(RState(buffer, depth_buffer, panic, << >>), a, b)} :
           /\ Store(line.st)
           /\ returned' = [op |-> "draw_line", args |-> << a, b >>,
                           out |-> [x |-> line.x, y |-> line.y, steps |-> line.steps,
                                    how |-> line.how]]
    /\ calls' = Append(calls, Call("draw_line", << a, b >>))
    /\ UNCHANGED << lookup, fluent, world, placed, camera, turned, moves >>

\* A call of Texture::sample.  An index past the end of pixels is a panic,
\* recorded as the result -1.
SampleCall(tex, coords) ==
    /\ lookup' = [texture |-> tex, coords |-> coords,
                  index |-> SampleIndex(tex, coords),
                  out |-> IF SampleIndex(tex, coords) < Len(tex.pixels)
                          THEN Sample(tex, coords) ELSE -1]
    /\ UNCHANGED << buffer, depth_buffer, panic, sampled, calls, returned, fluent, world, placed, camera, turned, moves >>

\* The textures and coordinates the sample calls are tried on.
TexWide == Tex(2, 1, << 6, 7 >>)
TexTall == Tex(3, 2, << 11, 12, 13, 14, 15, 16 >>)
Textures == {TexA, TexB, TexWide, TexTall}
Quarters == {0, 1, 2, 3, 4, 5, 8, 12}
SampleCoords == {Vec2(R(u, 4), R(v, 4)) : u \in Quarters, v \in Quarters}

NoLookup == [texture |-> TexB, coords |-> Vec2(F(0), F(0)), index |-> -1, out |-> -1]

\* No value-returning call made yet.
NoCall == [op |-> "none", args |-> << >>, out |-> << >>]

\* Mat4::identity(), with nothing applied to it yet.
Fresh == [m |-> Identity, op |-> "identity", from |-> Identity, args |-> << >>, made |-> 0]

\* World::add_object.
AddObject(obj, pos) ==
    /\ Len(world.objects) < MaxObjects
    /\ world' = WorldAddObject(world, obj, pos)
    /\ placed' = Append(placed, [obj |-> obj, pos |-> pos])
    /\ UNCHANGED << buffer, depth_buffer, panic, sampled, calls, lookup, returned, fluent, camera, turned, moves >>

\* A call of Camera::render_world, on buffers the frame loop has cleared.
RenderWorldCall(time) ==
    /\ ~panic
    /\ calls = << >>
    /\ \E st \in {RenderWorld([buffer |-> buffer, depth_buffer |-> depth_buffer,
                               panic |-> panic, sampled |-> sampled, calls |-> calls],
                              camera, world, time)} :
           Store(st) /\ calls' = st.calls
    /\ UNCHANGED << lookup, returned, fluent, world, placed, camera, turned, moves >>

\* A call of Camera::rotate.  The yaw, which the code lets grow, is kept
\* within MaxTurn quarter turns, and the multiples of theta0 within MaxTilt.
Rotate(offset) ==
    /\ \E cam \in {CameraRotate(camera, offset)} :
           /\ Abs(cam.rot.y.q) <= MaxTurn
           /\ Abs(cam.rot.x.t) + Abs(cam.rot.y.t) <= MaxTilt
           /\ camera' = cam
    /\ turned' = [from |-> camera.rot, offset |-> offset]
    /\ UNCHANGED << buffer, depth_buffer, panic, sampled, calls, lookup, returned, fluent, world, placed, moves >>

\* A call of Camera::translate.
Translate(x, z) ==
    /\ moves < MaxMoves
    /\ camera' = CameraTranslate(camera, x, z)
    /\ moves' = moves + 1
    /\ UNCHANGED << buffer, depth_buffer, panic, sampled, calls, lookup, returned, fluent, world, placed, turned >>

(* ---------------------- world and camera inputs ----------------------- *)
\* The position the driver creates the camera at.
CameraStart == Vec3(F(0), F(-1), F(20))

\* A quad of two faces that fills the screen of the camera at CameraStart.
QuadVertices ==
    << Vec3(F(-10), F(12), F(0)), Vec3(F(10), F(12), F(0)),
       Vec3(F(-10), F(-8), F(0)), Vec3(F(10), F(-8), F(0)) >>
QuadCoords == << P(0, 0), P(8, 0), P(0, 8), P(8, 8) >>
QuadFaces == << Face(<< 0, 1, 2 >>, << 0, 1, 2 >>, << 0, 0, 0 >>),
                Face(<< 1, 3, 2 >>, << 1, 3, 2 >>, << 0, 0, 0 >>) >>
Quad == Object(QuadVertices, QuadCoords, QuadFaces, TexA, Identity)

\* One triangle, further from the camera.
Tri ==
    Object(<< Vec3(F(-15), F(17), F(10)), Vec3(F(15), F(17), F(10)),
              Vec3(F(-15), F(-13), F(10)) >>,
           << P(0, 0), P(8, 0), P(0, 8) >>,
           << Face(<< 0, 1, 2 >>, << 0, 1, 2 >>, << 0, 0, 0 >>) >>, TexB, Identity)

\* The object of the driver's gen_ground, which is built one unit down.
Ground == [Tri EXCEPT !.transformation = MatTranslate(Identity, Vec3(F(0), F(-1), F(0)))]

\* An object a caller has turned a quarter turn about Y with transform().
Turned == ObjectTransform(Tri, MatRotate(Identity, Y_AXIS, HALF_PI))

\* The object of the add_object test: no faces, an empty texture.
Empty == Object(<< >>, << >>, << >>, Tex(0, 0, << >>), Identity)

Objects == {Quad, Tri, Ground, Turned, Empty}

\* Objects as from_obj builds them from a file whose `f` lines name a vertex or
\* a texture coordinate the file does not hold: the first face of one indexes
\* past its vertices, the second face of the other past its tex_coords.
BrokenVertex ==
    [Quad EXCEPT !.faces = << Face(<< 0, 1, 4 >>, << 0, 1, 2 >>, << 0, 0, 0 >>),
                              QuadFaces[2] >>]
BrokenCoord ==
    [Quad EXCEPT !.faces = << QuadFaces[1],
                              Face(<< 1, 3, 2 >>, << 1, 3, 9 >>, << 0, 0, 0 >>) >>]

\* Triangles the camera at CameraStart stands in: the first vertex of one is
\* at camera-space z = 0 and its second behind the camera, the last vertex of
\* the other is at camera-space z = 0.
Crossing ==
    [Tri EXCEPT !.vertices = << Vec3(F(0), F(5), F(-20)), Vec3(F(-10), F(-8), F(-30)),
                                Vec3(F(10), F(-8), F(0)) >>]
CrossingLast ==
    [Tri EXCEPT !.vertices = << Vec3(F(-10), F(12), F(0)), Vec3(F(10), F(12), F(0)),
                                Vec3(F(0), F(5), F(-20)) >>]
FileObjects == {Quad, Tri, BrokenVertex, BrokenCoord, Crossing, CrossingLast}
Positions == {ORIGIN, Vec3(F(5), F(0), F(0))}

\* 0.05 * time is 0, or a quarter turn.
Times == {Ang(0, 0), HALF_PI}

\* The offsets of the rotate calls: a quarter turn or theta0 of pitch either
\* way, a half turn of pitch, a quarter turn or theta0 of yaw, both at once.
Theta == Ang(0, 1)
Offsets ==
    {Vec3(x, Ang(0, 0), Ang(0, 0)) :
        x \in {HALF_PI, AngNeg(HALF_PI), Theta, AngNeg(Theta), Ang(2, 0), Ang(-2, 0)}}
    \cup {Vec3(Ang(0, 0), y, Ang(0, 0)) : y \in {HALF_PI, AngNeg(HALF_PI), Theta, AngNeg(Theta)}}
    \cup {Vec3(Ang(2, 0), HALF_PI, Ang(0, 0)), Vec3(AngNeg(Theta), AngNeg(Theta), Ang(0, 0))}

\* No rotate call made yet.
NoTurn == [from |-> Vec3(Ang(0, 0), Ang(0, 0), Ang(0, 0)),
           offset |-> Vec3(Ang(0, 0), Ang(0, 0), Ang(0, 0))]

\* A call of Camera::look_at, with the matrix applied to a world point as
\* render_world applies it.
LookAtCall(point) ==
    /\ returned' = [op |-> "look_at", args |-> << camera, point >>,
                    out |-> Then(LookAt(camera), LAMBDA to_camera :
                                [matrix |-> to_camera,
                                 image |-> MatTransform(to_camera, point)])]
    /\ UNCHANGED << buffer, depth_buffer, panic, sampled, calls, lookup, fluent, world, placed,
                    camera, turned, moves >>

\* The world points look_at is tried on: ahead of and behind the camera, level
\* with it, and at the position itself.
Points ==
    {ORIGIN, Vec3(F(3), F(-2), F(30)), Vec3(F(1), F(2), F(-30)), Vec3(F(-4), F(5), F(20)),
     CameraStart}

\* The rotate and translate calls made before look_at is tried.
ViewOffsets ==
    {Vec3(HALF_PI, Ang(0, 0), Ang(0, 0)), Vec3(Ang(0, 0), HALF_PI, Ang(0, 0)),
     Vec3(Ang(0, 0), Theta, Ang(0, 0)), Vec3(AngNeg(Theta), Ang(0, 0), Ang(0, 0))}
ViewAmounts == {<< F(1), F(0) >>, << F(-1), F(2) >>}

\* The composed matrix after one more method of the chain.
Chained(op, args, m) ==
    [m |-> m, op |-> op, from |-> fluent.m, args |-> args, made |-> fluent.made + 1]

\* A call of Mat4::translate on the composed matrix.
MatTranslateCall(vec) ==
    /\ fluent.made < MaxCompose
    /\ fluent' = Chained("translate", << vec >>, MatTranslate(fluent.m, vec))
    /\ UNCHANGED << buffer, depth_buffer, panic, sampled, calls, lookup, returned, world,
                    placed, camera, turned, moves >>

\* A call of Mat4::rotate on the composed matrix.
MatRotateCall(axis, theta) ==
    /\ fluent.made < MaxCompose
    /\ fluent' = Chained("rotate", << axis, theta >>, MatRotate(fluent.m, axis, theta))
    /\ UNCHANGED << buffer, depth_buffer, panic, sampled, calls, lookup, returned, world,
                    placed, camera, turned, moves >>

\* A call of Mat4::mult on the composed matrix.
MatMultCall(mat) ==
    /\ fluent.made < MaxCompose
    /\ fluent' = Chained("mult", << mat >>, MatMult(fluent.m, mat))
    /\ UNCHANGED << buffer, depth_buffer, panic, sampled, calls, lookup, returned, world,
                    placed, camera, turned, moves >>

\* A call of Mat4::mult whose result is only looked at.
MultCall(a, b) ==
    /\ returned' = [op |-> "mult", args |-> << a, b >>, out |-> MatMult(a, b)]
    /\ UNCHANGED << buffer, depth_buffer, panic, sampled, calls, lookup, fluent, world,
                    placed, camera, turned, moves >>

\* A call of Mat4::transform.
TransformCall(m, vec) ==
    /\ returned' = [op |-> "transform", args |-> << m, vec >>, out |-> MatTransform(m, vec)]
    /\ UNCHANGED << buffer, depth_buffer, panic, sampled, calls, lookup, fluent, world,
                    placed, camera, turned, moves >>

\* A call of get_barycentric(a, b, c, p).
GetBarycentricCall(a, b, c, p) ==
    /\ returned' = [op |-> "get_barycentric", args |-> << a, b, c, p >>,
                    out |-> GetBarycentric(a, b, c, p)]
    /\ UNCHANGED << buffer, depth_buffer, panic, sampled, calls, lookup, fluent, world,
                    placed, camera, turned, moves >>

\* The triangles get_barycentric is called with: the one of the test
\* barycentric, one of each winding, a sliver, and one whose corners lie on a
\* line.
BaryTriangles ==
    { << Vec2(F(0), F(0)), Vec2(F(1), F(1)), Vec2(F(1), F(0)) >>,
      << Vec2(F(0), F(0)), Vec2(F(4), F(0)), Vec2(F(0), F(3)) >>,
      << Vec2(F(-2), F(1)), Vec2(F(1), F(-2)), Vec2(F(3), F(2)) >>,
      << Vec2(F(-1), F(-1)), Vec2(F(3), F(3)), Vec2(F(2), F(3)) >>,
      << Vec2(F(0), F(0)), Vec2(F(1), F(1)), Vec2(F(2), F(2)) >> }

\* The points: a grid around the triangles and the point of the test.
GridBelow == 2
GridHigh == 4
BaryPoints ==
    {Vec2(F(x), F(y)) : x \in -GridBelow .. GridHigh, y \in -GridBelow .. GridHigh}
        \cup {Vec2(R(1, 2), R(1, 4)), Vec2(R(1, 2), R(1, 2)), Vec2(R(5, 2), R(7, 4))}

\* The matrices of the tests multiply_matrix and transform_vector.
mat_a ==
    << << F(1), F(2), F(3), F(4) >>, << F(2), F(2), F(3), F(4) >>,
       << F(3), F(3), F(3), F(4) >>, << F(4), F(4), F(4), F(4) >> >>
mat_b ==
    << << F(4), F(3), F(2), F(1) >>, << F(3), F(3), F(2), F(1) >>,
       << F(2), F(2), F(2), F(1) >>, << F(1), F(1), F(1), F(1) >> >>
transformation_matrix ==
    << << F(3), F(0), F(0), F(1) >>, << F(0), F(3), F(0), F(2) >>,
       << F(0), F(0), F(3), F(3) >>, << F(0), F(0), F(0), F(1) >> >>

\* The arguments the Mat4 methods are tried on: the vectors (those of the test
\* translate_vector among them), the axes (one not of unit length, one of no
\* length), the angles, and the matrices given to mult.
MatVectors == {Vec3(F(0), F(1), F(2)), Vec3(F(1), F(1), F(1)), Vec3(R(-5, 2), F(0), F(7))}
MatAxes == {Y_AXIS, Vec3(F(3), F(0), F(4)), ORIGIN}
MatAngles == {HALF_PI, Theta}
MatOperands == {transformation_matrix, MatRotate(Identity, X_AXIS, Theta)}

\* The amounts of the translate calls.
Amounts == {<< F(1), F(0) >>, << F(0), F(1) >>, << F(-1), F(2) >>}

vars == << buffer, depth_buffer, panic, sampled, calls, lookup, returned, fluent, world, placed, camera, turned, moves >>

Init ==
    /\ RendererInit
    /\ lookup = NoLookup
    /\ returned = NoCall
    /\ fluent = Fresh
    /\ world = WorldNew
    /\ placed = << >>
    /\ camera = CameraNew(CameraStart)
    /\ turned = NoTurn
    /\ moves = 0

\* The Renderer on its own.
Next ==
    \/ Clear /\ UNCHANGED << lookup, returned, fluent, world, placed, camera, turned, moves >>
    \/ \E t \in Triangles : DrawTriangleCall(t[1], t[2], t[3])
                               /\ UNCHANGED << lookup, returned, fluent, world, placed, camera, turned, moves >>
    \/ \E p \in Pixels : DrawPixelCall(p[1], p[2])
                            /\ UNCHANGED << lookup, returned, fluent, world, placed, camera, turned, moves >>

Spec == Init /\ [][Next]_vars

\* The fill pass of draw_triangle, frame after frame.
NextFill ==
    \/ Clear /\ UNCHANGED << lookup, returned, fluent, world, placed, camera, turned, moves >>
    \/ \E t \in FillTriangles : DrawTriangleCall(t[1], t[2], t[3])
                                   /\ UNCHANGED << lookup, returned, fluent, world, placed, camera, turned, moves >>

SpecFill == Init /\ [][NextFill]_vars

\* The wireframe pass: lines drawn between raster points.
NextLine ==
    \/ Clear /\ UNCHANGED << lookup, returned, fluent, world, placed, camera, turned, moves >>
    \/ \E a \in LineEnds, b \in LineEnds : DrawLineCall(a, b)

SpecLine == Init /\ [][NextLine]_vars

\* Texture::sample on its own.
NextTexture == \E tex \in Textures, c \in SampleCoords : SampleCall(tex, c)

SpecTexture == Init /\ [][NextTexture]_vars

\* The World filled and rendered by the camera the driver creates.
NextWorld ==
    \/ \E obj \in Objects, pos \in Positions : AddObject(obj, pos)
    \/ \E time \in Times : RenderWorldCall(time)
    \/ Clear /\ UNCHANGED << lookup, returned, fluent, world, placed, camera, turned, moves >>

SpecWorld == Init /\ [][NextWorld]_vars

\* Worlds of objects read from files, rendered frame after frame.
NextFiles ==
    \/ \E obj \in FileObjects, pos \in Positions : AddObject(obj, pos)
    \/ RenderWorldCall(Ang(0, 0))
    \/ Clear /\ UNCHANGED << lookup, returned, fluent, world, placed, camera, turned, moves >>

SpecFiles == Init /\ [][NextFiles]_vars

\* The Camera moved and turned.
NextCamera ==
    \/ \E offset \in Offsets : Rotate(offset)
    \/ \E a \in Amounts : Translate(a[1], a[2])

SpecCamera == Init /\ [][NextCamera]_vars

\* The Camera moved and turned, and its view matrix taken.
NextView ==
    \/ \E offset \in ViewOffsets : Rotate(offset)
    \/ \E a \in ViewAmounts : Translate(a[1], a[2])
    \/ \E point \in Points : LookAtCall(point)

SpecView == Init /\ [][NextView]_vars

\* Mat4 values composed, multiplied and applied.
NextMat ==
    \/ \E vec \in MatVectors : MatTranslateCall(vec)
    \/ \E axis \in MatAxes, theta \in MatAngles : MatRotateCall(axis, theta)
    \/ \E mat \in MatOperands : MatMultCall(mat)
    \/ \E a \in {mat_a, fluent.m}, b \in {mat_b, transformation_matrix, fluent.m} : MultCall(a, b)
    \/ \E m \in {fluent.m, transformation_matrix, mat_a}, vec \in MatVectors : TransformCall(m, vec)

SpecMat == Init /\ [][NextMat]_vars

\* get_barycentric on its own.
NextBary ==
    \E t \in BaryTriangles, p \in BaryPoints : GetBarycentricCall(t[1], t[2], t[3], p)

SpecBary == Init /\ [][NextBary]_vars

\* The places the program composes matrices: a fluent chain, the view matrix
\* of a camera that may have been pitched, the objects added to a world.
NextCompose ==
    \/ \E vec \in MatVectors : MatTranslateCall(vec)
    \/ \E axis \in MatAxes, theta \in MatAngles : MatRotateCall(axis, theta)
    \/ \E mat \in MatOperands : MatMultCall(mat)
    \/ \E offset \in {Vec3(HALF_PI, Ang(0, 0), Ang(0, 0))} : Rotate(offset)
    \/ \E point \in {ORIGIN} : LookAtCall(point)
    \/ \E obj \in {Ground, Turned}, pos \in {Vec3(F(5), F(0), F(0))} : AddObject(obj, pos)

SpecCompose == Init /\ [][NextCompose]_vars

(* -------------------------- claims: Renderer -------------------------- *)
Columns == 0 .. (Width - 1)
Rows == 0 .. (Height - 1)
IsTriangle(c) == c.op = "draw_triangle"

\* The step is a draw_triangle call / a draw_pixel call; its arguments.
DrewTriangle == Len(calls') = Len(calls) + 1 /\ calls'[Len(calls')].op = "draw_triangle"
DrewPixel == Len(calls') = Len(calls) + 1 /\ calls'[Len(calls')].op = "draw_pixel"

\* The weights of the pixel (x, y) against the triangle with these vertices.
Weights(vertices, x, y) ==
    LET rp == RasterPoints(vertices)
    IN  GetBarycentric(Vec2From(rp[1]), Vec2From(rp[2]), Vec2From(rp[3]), Vec2(F(x), F(y)))

NonNegative(b) == RGe(b.u, F(0)) /\ RGe(b.v, F(0)) /\ RGe(b.w, F(0))

\* The fill loop reaches the pixel (x, y).
Visited(vertices, x, y) ==
    LET b == Box(RasterPoints(vertices))
    IN  b.x_min <= x /\ x < b.x_max /\ b.y_min <= y /\ y < b.y_max

\* The triangle t = <<vertices, texture, tex_coords>> covers the pixel: all of
\* it is in front of the camera and the fill pass finds the pixel inside it.
HasFragment(t, x, y) ==
    /\ \A k \in 1 .. 3 : RLt(t[1][k].z, F(0))
    /\ Visited(t[1], x, y)
    /\ NonNegative(Weights(t[1], x, y))

FragZ(t, x, y) ==
    LET b == Weights(t[1], x, y)
    IN  RAdd(RAdd(RMul(b.u, t[1][1].z), RMul(b.v, t[1][2].z)), RMul(b.w, t[1][3].z))

FragCol(t, x, y) == Sample(t[2], TexXY(t[3], Weights(t[1], x, y)))

\* Two triangles were drawn on the cleared buffers and both cover (x, y), at
\* different depths.
TwoCover(x, y) ==
    /\ Len(calls) = 2
    /\ IsTriangle(calls[1]) /\ IsTriangle(calls[2])
    /\ HasFragment(calls[1].args, x, y) /\ HasFragment(calls[2].args, x, y)
    /\ FragZ(calls[1].args, x, y) # FragZ(calls[2].args, x, y)

NearerOf(x, y) ==
    IF RGt(FragZ(calls[1].args, x, y), FragZ(calls[2].args, x, y))
    THEN calls[1].args ELSE calls[2].args

NearerWins(x, y) ==
    /\ buffer[Width * y + x] = FragCol(NearerOf(x, y), x, y)
    /\ depth_buffer[y][x] = FragZ(NearerOf(x, y), x, y)

C3_BehindCameraCull ==
    [][(DrewTriangle /\ \E k \in 1 .. 3 : RGe(calls'[Len(calls')].args[1][k].z, F(0)))
        => (buffer' = buffer /\ depth_buffer' = depth_buffer)]_vars

\* A triangle whose second vertex alone is at z >= 0 was handed to
\* draw_triangle after another had been drawn.
C3_Witness ==
    /\ Len(calls) = 2
    /\ IsTriangle(calls[1]) /\ IsTriangle(calls[2])
    /\ buffer # ClearBuffer
    /\ RLt(calls[2].args[1][1].z, F(0))
    /\ RGe(calls[2].args[1][2].z, F(0))
    /\ RLt(calls[2].args[1][3].z, F(0))

Cross2(a, b) == RSub(RMul(a.x, b.y), RMul(a.y, b.x))
ScreenCorners ==
    {Vec2(F(0), F(0)), Vec2(F(Width), F(0)), Vec2(F(0), F(Height)), Vec2(F(Width), F(Height))}

\* The line through rp[i] and rp[j] has the third point strictly on one side
\* and the four corners of the screen strictly on the other.
EdgeSeparates(rp, i, j, k) ==
    LET side(p) == Cross2(Vec2Sub(Vec2From(rp[j]), Vec2From(rp[i])),
                          Vec2Sub(p, Vec2From(rp[i]))).n
    IN  /\ side(Vec2From(rp[k])) # 0
        /\ \A c \in ScreenCorners : Sign(side(c)) = -Sign(side(Vec2From(rp[k])))

\* The three raster points are outside the screen and the triangle does not
\* meet it: it is off one side, or one of its edges keeps it apart.
OffScreen(vertices) ==
    LET rp == RasterPoints(vertices)
    IN  \/ \A k \in 1 .. 3 : RLt(rp[k].x, F(0))
        \/ \A k \in 1 .. 3 : RGe(rp[k].x, F(Width))
        \/ \A k \in 1 .. 3 : RLt(rp[k].y, F(0))
        \/ \A k \in 1 .. 3 : RGe(rp[k].y, F(Height))
        \/ /\ \A k \in 1 .. 3 : \/ RLt(rp[k].x, F(0)) \/ RGe(rp[k].x, F(Width))
                               \/ RLt(rp[k].y, F(0)) \/ RGe(rp[k].y, F(Height))
           /\ \/ EdgeSeparates(rp, 1, 2, 3)
              \/ EdgeSeparates(rp, 2, 3, 1)
              \/ EdgeSeparates(rp, 3, 1, 2)

\* C4: after clear(), draw_triangle on a triangle that lies off the screen
\* leaves both buffers in their cleared state.
C4_OffScreenCull ==
    (Len(calls) = 1 /\ IsTriangle(calls[1]) /\ OffScreen(calls[1].args[1]))
        => (buffer = ClearBuffer /\ depth_buffer = ClearDepth)

\* An off-screen triangle with raster x coordinates in (-1, 0), which the
\* casts of min3 and max3 round to column 0, was drawn on the cleared buffers.
C4_Witness ==
    /\ Len(calls) = 1
    /\ IsTriangle(calls[1])
    /\ OffScreen(calls[1].args[1])
    /\ \A k \in 1 .. 3 : RLt(calls[1].args[1][k].z, F(0))
    /\ \E k \in 1 .. 3 :
        LET rx == RasterPoints(calls[1].args[1])[k].x
        IN  RLt(F(-1), rx) /\ RLt(rx, F(0))

\* C5 as stated: draw_pixel with a pixel outside the screen does not fail and
\* changes neither buffer.
C5_Original ==
    [][(DrewPixel /\ LET pixel == calls'[Len(calls')].args[1]
                     IN  \/ RLt(pixel.x, F(0)) \/ RGe(pixel.x, F(Width))
                         \/ RLt(pixel.y, F(0)) \/ RGe(pixel.y, F(Height)))
        => (~panic' /\ buffer' = buffer /\ depth_buffer' = depth_buffer)]_vars

\* C6 as stated: the coordinate handed to Texture::sample for a pixel with
\* the weights (u, v, w) is u*t0 + v*t1 + w*t2.
C6_Original ==
    (Len(calls) > 0 /\ IsTriangle(calls[Len(calls)])) =>
        \A i \in 1 .. Len(sampled) :
            LET t == calls[Len(calls)].args
                b == Weights(t[1], sampled[i].x, sampled[i].y)
            IN  sampled[i].coords =
                    Vec2Add(Vec2Add(Vec2Scale(t[3][1], b.u), Vec2Scale(t[3][2], b.v)),
                            Vec2Scale(t[3][3], b.w))

(* -------------------------- claims: Texture --------------------------- *)
\* C7: for valid textures and non-negative coordinates (u, v), sample reads
\* pixels[(width * trunc(v * height) + trunc(u * width)) mod len], an index
\* inside the buffer.
C7_SampleWraps ==
    lookup # NoLookup =>
        LET t == lookup.texture
            x == RMul(lookup.coords.x, F(t.width))
            y == RMul(lookup.coords.y, F(t.height))
            i == (t.width * (y.n \div y.d) + (x.n \div x.d)) % Len(t.pixels)
        IN  /\ lookup.index = i
            /\ lookup.out = t.pixels[i + 1]

\* sample at (1.0, 1.0) on the 3 x 2 texture has read pixels[3].
C7_Witness ==
    /\ lookup.texture = TexTall
    /\ lookup.coords = Vec2(F(1), F(1))
    /\ lookup.index = 3
    /\ lookup.out = 14

(* --------------------------- claims: World ---------------------------- *)
\* The matrix of the pure translation by v.
Translation(v) ==
    << << F(1), F(0), F(0), v.x >>,
       << F(0), F(1), F(0), v.y >>,
       << F(0), F(0), F(1), v.z >>,
       << F(0), F(0), F(0), F(1) >> >>

\* C8 as stated: every object of the world carries the pure translation by
\* the position it was added at, whatever transformation it carried before.
C8_Original ==
    \A i \in 1 .. Len(world.objects) :
        world.objects[i].transformation = Translation(placed[i].pos)

\* C8 amended: the transformation of an added object is the transformation it
\* carried before the call times the translation by pos; it is the pure
\* translation by pos when the object carried the identity.
C8_Composed ==
    \A i \in 1 .. Len(world.objects) :
        LET prior == placed[i].obj.transformation
            now == world.objects[i].transformation
        IN  /\ now = MatMult(prior, Translation(placed[i].pos))
            /\ prior = Identity => now = Translation(placed[i].pos)

\* An object that carried a transformation has been added away from the
\* origin, and what it carries now is not the translation by pos.
C8_Witness ==
    \E i \in 1 .. Len(world.objects) :
        /\ placed[i].obj.transformation # Identity
        /\ placed[i].pos # ORIGIN
        /\ world.objects[i].transformation # Translation(placed[i].pos)

\* The faces of a list of objects: << i, j >> is face j of object i.
Slots(objects) ==
    UNION {{<< i, j >> : j \in 1 .. Len(objects[i].faces)} : i \in 1 .. Len(objects)}

\* Object insertion order, then face-list order.
Before(s, t) == s[1] < t[1] \/ (s[1] = t[1] /\ s[2] < t[2])

\* The place of a face in that order, from 1.
Rank(objects, s) == 1 + Cardinality({t \in Slots(objects) : Before(t, s)})

\* Every face indexes inside the lists of its object.
WellFormed(objects) ==
    \A s \in Slots(objects) : FaceInRange(objects[s[1]], objects[s[1]].faces[s[2]])

\* An add_object step: one more object, the new one last with the data of
\* the object passed in, the earlier ones as they were.
AddsLast ==
    world'.objects # world.objects =>
        LET n == Len(world.objects)
            new == world'.objects[n + 1]
            obj == placed'[n + 1].obj
        IN  /\ Len(world'.objects) = n + 1
            /\ SubSeq(world'.objects, 1, n) = world.objects
            /\ new.vertices = obj.vertices /\ new.tex_coords = obj.tex_coords
            /\ new.faces = obj.faces /\ new.texture = obj.texture

\* A render_world step: the draw_triangle calls are the faces of the world,
\* one call each, in insertion order and face-list order.
DrawsInOrder ==
    (calls = << >> /\ calls' # << >> /\ WellFormed(world.objects)) =>
        \E time \in Times :
            /\ Len(calls') = Cardinality(Slots(world.objects))
            /\ \A s \in Slots(world.objects) :
                   calls'[Rank(world.objects, s)] =
                       Call("draw_triangle",
                            FaceArgs(camera, world.objects[s[1]],
                                     world.objects[s[1]].faces[s[2]], time))

\* C9: add_object grows world.objects by exactly one, the new object last and
\* the earlier ones unchanged in their order; render_world makes exactly one
\* draw_triangle call per face, in object insertion order and, within an
\* object, in face-list order.
C9_InsertionOrder == [][AddsLast /\ DrawsInOrder]_vars

\* A world of a quad and a triangle added after it has been rendered: three
\* calls, the third unlike the first.
C9_Witness ==
    /\ Len(world.objects) = 2
    /\ Len(world.objects[1].faces) = 2
    /\ Len(calls) = 3
    /\ calls[3] # calls[1]
    /\ buffer # ClearBuffer

(* --------------------------- claims: Camera --------------------------- *)
PitchInRange(rot) ==
    /\ AngMicro(rot.x) <= AngMicro(HALF_PI)
    /\ AngMicro(rot.x) >= -AngMicro(HALF_PI)

\* A rotate step: the pitch is the sum held to [-PI/2, PI/2], at the bound
\* itself when the sum is past it; the yaw is the sum.
RotateClamps ==
    turned' # turned =>
        LET sum == AngAdd(camera.rot.x, turned'.offset.x)
        IN  /\ turned'.from = camera.rot
            /\ camera'.rot.y = AngAdd(camera.rot.y, turned'.offset.y)
            /\ AngMicro(sum) > AngMicro(HALF_PI) => camera'.rot.x = HALF_PI
            /\ AngMicro(sum) < -AngMicro(HALF_PI) => camera'.rot.x = AngNeg(HALF_PI)
            /\ (AngMicro(sum) <= AngMicro(HALF_PI) /\ AngMicro(sum) >= -AngMicro(HALF_PI))
                   => camera'.rot.x = sum

\* A translate step leaves the rotation alone.
TranslateKeepsRot == moves' # moves => camera'.rot = camera.rot

\* C10: through every sequence of rotate and translate calls the pitch stays
\* in [-PI/2, PI/2]; a rotate whose offset would take the pitch past a bound
\* leaves it at that bound, and the yaw grows by offset.y, unclamped.
C10_PitchClamped ==
    [][PitchInRange(camera.rot) /\ PitchInRange(camera'.rot)
       /\ RotateClamps /\ TranslateKeepsRot]_vars

\* A rotate that asked for a pitch below -PI/2 has left it at -PI/2, and has
\* moved the yaw by its offset.
C10_Witness ==
    /\ AngMicro(AngAdd(turned.from.x, turned.offset.x)) < -AngMicro(HALF_PI)
    /\ camera.rot.x = AngNeg(HALF_PI)
    /\ turned.offset.y # Ang(0, 0)
    /\ camera.rot.y = AngAdd(turned.from.y, turned.offset.y)

(* -------------------------------- C11 --------------------------------- *)
\* C11: Camera::translate(x, z) never changes the Y component of the camera
\* position, whatever the pitch and yaw and whatever the two amounts, and it
\* leaves pitch, yaw and the forward, right and up vectors as they were.
TranslateStaysLevel ==
    moves' # moves =>
        /\ camera'.pos.y = camera.pos.y
        /\ camera'.rot = camera.rot
        /\ camera'.forward = camera.forward
        /\ camera'.right = camera.right
        /\ camera'.up = camera.up

C11_TranslateHorizontal == [][TranslateStaysLevel]_vars

\* A pitched camera has been moved, forwards and sideways, and is still at the
\* height it was created at.
C11_Witness ==
    /\ moves > 0
    /\ camera.rot.x # Ang(0, 0)
    /\ camera.forward.y # F(0)
    /\ camera.pos.x # CameraStart.x
    /\ camera.pos.z # CameraStart.z
    /\ camera.pos.y = CameraStart.y

(* -------------------------------- C12 --------------------------------- *)
Vec3Sub(a, b) == Vec3(RSub(a.x, b.x), RSub(a.y, b.y), RSub(a.z, b.z))
Vec3Dot(a, b) == RAdd(RAdd(RMul(a.x, b.x), RMul(a.y, b.y)), RMul(a.z, b.z))

\* The point p seen from the basis of cam after p is moved by shift.
InBasis(cam, shifted) ==
    Vec3(Vec3Dot(cam.right, shifted), Vec3Dot(cam.up, shifted), Vec3Dot(cam.forward, shifted))

IsLookAt == returned.op = "look_at"

\* Two f64 values, or two vectors, that differ by rounding at most: equal once
\* what is of the order of eps is dropped.
Rounded(a) == IF a.d # 0 /\ a.e > 0 THEN F(0) ELSE a
Close(a, b) == Rounded(a) = Rounded(b)
Vec3Close(u, v) == Close(u.x, v.x) /\ Close(u.y, v.y) /\ Close(u.z, v.z)

\* C12: look_at is the rotation with rows right, up, forward composed with a
\* translation by -position: for every world point p, look_at().transform(p) is
\* (right . (p - pos), up . (p - pos), forward . (p - pos)), up to rounding.
C12_Original ==
    IsLookAt =>
        Vec3Close(returned.out.image,
                  InBasis(returned.args[1], Vec3Sub(returned.args[2], returned.args[1].pos)))

\* What the code computes instead: the point is moved by +position, so a point
\* at the camera's own position is not mapped to the origin of camera space.
C12_MovedByPosition ==
    IsLookAt =>
        Vec3Close(returned.out.image,
                  InBasis(returned.args[1], Vec3Add(returned.args[2], returned.args[1].pos)))

C12_AtCameraNotOrigin ==
    (IsLookAt /\ returned.args[2] = returned.args[1].pos) => returned.out.image # ORIGIN

(* -------------------------------- C13 --------------------------------- *)
\* The look_at call was made on a camera as Camera::new leaves it.
OnNewCamera == IsLookAt /\ returned.args[1] = CameraNew(returned.args[1].pos)

\* C13: for a newly constructed camera at pos, which looks down the negative Z
\* axis, look_at().transform gives a world point p a negative z exactly when p
\* is in front of the camera (p.z < pos.z); a point behind it (p.z > pos.z)
\* gets z >= 0, which draw_triangle culls.
C13_Original ==
    OnNewCamera =>
        LET pos == returned.args[1].pos
            p == returned.args[2]
            image == returned.out.image
        IN  /\ RLt(image.z, F(0)) <=> RLt(p.z, pos.z)
            /\ RGt(p.z, pos.z) => (RGe(image.z, F(0)) /\ Culled(<< image, image, image >>))

\* What the code computes: z is -(p.z + pos.z), negative exactly when p.z is
\* above -pos.z.
C13_FrontOfMinusPosition ==
    OnNewCamera =>
        LET pos == returned.args[1].pos
            p == returned.args[2]
            image == returned.out.image
        IN  /\ image.z = RNeg(RAdd(p.z, pos.z))
            /\ RLt(image.z, F(0)) <=> RGt(p.z, RNeg(pos.z))

(* -------------------------------- C14 --------------------------------- *)
Vec3IsFinite(v) == IsFinite(v.x) /\ IsFinite(v.y) /\ IsFinite(v.z)

\* u, v and w are of unit length and at right angles to each other, up to
\* rounding.
Orthonormal(u, v, w) ==
    /\ Vec3IsFinite(u) /\ Vec3IsFinite(v) /\ Vec3IsFinite(w)
    /\ Close(Vec3Dot(u, u), F(1)) /\ Close(Vec3Dot(v, v), F(1)) /\ Close(Vec3Dot(w, w), F(1))
    /\ Close(Vec3Dot(u, v), F(0)) /\ Close(Vec3Dot(u, w), F(0)) /\ Close(Vec3Dot(v, w), F(0))

\* C14: in every state reached from Camera::new by rotate and translate calls,
\* forward, right and up are an orthonormal basis: each of unit length, each
\* pair with dot product zero.  This holds too when the pitch is clamped to
\* PI/2 or -PI/2, where forward lies along the world Y axis.
C14_Orthonormal ==
    /\ Orthonormal(camera.forward, camera.right, camera.up)
    /\ camera.rot.x = HALF_PI => Vec3Close(camera.forward, Y_AXIS)
    /\ camera.rot.x = AngNeg(HALF_PI) => Vec3Close(camera.forward, Vec3(F(0), F(-1), F(0)))

\* A rotate call has clamped the pitch to PI/2 at a yaw that is no multiple of
\* a quarter turn: forward is along Y up to rounding only, and right and up
\* are finite.
C14_Witness ==
    /\ AngMicro(AngAdd(turned.from.x, turned.offset.x)) > AngMicro(HALF_PI)
    /\ camera.rot.x = HALF_PI
    /\ camera.rot.y.t # 0
    /\ Vec3Close(camera.forward, Y_AXIS) /\ camera.forward # Y_AXIS
    /\ Vec3IsFinite(camera.right) /\ Vec3IsFinite(camera.up)
    /\ camera.right.y = F(0)

(* -------------------------------- C15 --------------------------------- *)
\* The bottom row of m is [0, 0, 0, 1].
Affine(m) == m[4] = << F(0), F(0), F(0), F(1) >>

\* transform has been called on the matrix a translate call has just made.
TranslatedThenApplied ==
    returned.op = "transform" /\ fluent.op = "translate" /\ returned.args[1] = fluent.m

\* C15: Mat4::translate multiplies on the left: for every matrix M with bottom
\* row [0, 0, 0, 1], vector v and point p, M.translate(v).transform(p) is
\* M.transform(p) + v, the translation being applied after M; and
\* Mat4::identity().translate((0, 1, 2)).transform((1, 1, 1)) is (1, 2, 3).
C15_TranslateLeft ==
    /\ (TranslatedThenApplied /\ Affine(fluent.from)) =>
           Vec3Close(returned.out,
                     Vec3Add(MatTransform(fluent.from, returned.args[2]), fluent.args[1]))
    /\ (/\ TranslatedThenApplied
        /\ fluent.from = Identity
        /\ fluent.args[1] = Vec3(F(0), F(1), F(2))
        /\ returned.args[2] = Vec3(F(1), F(1), F(1))) =>
           returned.out = Vec3(F(1), F(2), F(3))

\* A matrix that turns and is not the identity was translated and applied: the
\* result is not what the matrix gives the point moved first.
C15_Witness ==
    /\ TranslatedThenApplied
    /\ fluent.made = 2
    /\ Affine(fluent.from)
    /\ Vec3IsFinite(returned.out)
    /\ returned.out # MatTransform(fluent.from, returned.args[2])
    /\ returned.out # MatTransform(fluent.from, Vec3Add(returned.args[2], fluent.args[1]))

(* -------------------------------- C16 --------------------------------- *)
MatIsFinite(m) == \A i \in 1 .. 4 : \A j \in 1 .. 4 : IsFinite(m[i][j])

\* The view matrix taken and the transformations of the objects of the world
\* have the bottom row [0, 0, 0, 1].
ViewAndObjectsAffine ==
    /\ IsLookAt => Affine(returned.out.matrix)
    /\ \A i \in 1 .. Len(world.objects) : Affine(world.objects[i].transformation)

RowByColumn(a, b, i, j) ==
    RAdd(RAdd(RAdd(RMul(a[i][1], b[1][j]), RMul(a[i][2], b[2][j])),
              RMul(a[i][3], b[3][j])), RMul(a[i][4], b[4][j]))

\* Row i of m against (x, y, z, 1).
RowByPoint(m, i, p) ==
    RAdd(RAdd(RAdd(RMul(p.x, m[i][1]), RMul(p.y, m[i][2])), RMul(p.z, m[i][3])), m[i][4])

\* The product the test multiply_matrix expects of mat_a and mat_b.
expected ==
    << << F(20), F(19), F(16), F(10) >>, << F(24), F(22), F(18), F(11) >>,
       << F(31), F(28), F(22), F(13) >>, << F(40), F(36), F(28), F(16) >> >>

IsMult == returned.op = "mult"

\* C17: A.mult(B) is the row-by-column product with the receiver A as the left
\* factor, result[i][j] being the sum over k of A[i][k] * B[k][j]; so for
\* matrices with the bottom row [0, 0, 0, 1], A.mult(B).transform(p) is
\* A.transform(B.transform(p)); and transform appends w = 1 and divides by
\* nothing.
C17_RowByColumn ==
    /\ IsMult =>
           \A i \in 1 .. 4 : \A j \in 1 .. 4 :
               returned.out[i][j] = RowByColumn(returned.args[1], returned.args[2], i, j)
    /\ (IsMult /\ returned.args = << mat_a, mat_b >>) => returned.out = expected
    /\ (IsMult /\ Affine(returned.args[1]) /\ Affine(returned.args[2])) =>
           \A p \in MatVectors :
               Vec3Close(MatTransform(returned.out, p),
                         MatTransform(returned.args[1], MatTransform(returned.args[2], p)))
    /\ returned.op = "transform" =>
           returned.out = Vec3(RowByPoint(returned.args[1], 1, returned.args[2]),
                               RowByPoint(returned.args[1], 2, returned.args[2]),
                               RowByPoint(returned.args[1], 3, returned.args[2]))

\* Two matrices with the bottom row [0, 0, 0, 1] that do not commute were
\* multiplied, the receiver a composed one.
C17_Witness ==
    /\ IsMult
    /\ Affine(returned.args[1]) /\ MatIsFinite(returned.args[1])
    /\ returned.args[1] = fluent.m /\ fluent.made = 2
    /\ returned.args[2] = transformation_matrix
    /\ returned.out # MatMult(returned.args[2], returned.args[1])
    /\ \E p \in MatVectors :
           MatTransform(returned.out, p) # MatTransform(returned.args[2], MatTransform(returned.args[1], p))

(* ------------------------------- C18 --------------------------------- *)
IsBary == returned.op = "get_barycentric"

\* Twice the signed area of the triangle a, b, c.
Area2(a, b, c) ==
    LET ab == Vec2Sub(b, a)
        ac == Vec2Sub(c, a)
    IN  RSub(RMul(ab.x, ac.y), RMul(ab.y, ac.x))

NonDegenerate(a, b, c) == Area2(a, b, c).n # 0

\* p is inside the triangle or on its border: it is not strictly on the two
\* sides of any two edges.
InsideOrOn(a, b, c, p) ==
    LET side == << Area2(a, b, p), Area2(b, c, p), Area2(c, a, p) >>
    IN  \/ \A i \in 1 .. 3 : side[i].n >= 0
        \/ \A i \in 1 .. 3 : side[i].n <= 0

\* u * a + v * b + w * c.
Combination(bary, a, b, c) ==
    Vec2Add(Vec2Add(Vec2Scale(a, bary.u), Vec2Scale(b, bary.v)), Vec2Scale(c, bary.w))

InUnit(x) == RGe(x, F(0)) /\ RGe(F(1), x)

IsBaryTest ==
    /\ IsBary
    /\ returned.args = << Vec2(F(0), F(0)), Vec2(F(1), F(1)), Vec2(F(1), F(0)),
                          Vec2(R(1, 2), R(1, 4)) >>

Sized(b, d) ==
    /\ DOMAIN b = 0 .. ((Width * Height) - 1)
    /\ DOMAIN d = 0 .. (Height - 1)
    /\ \A y \in DOMAIN d : DOMAIN d[y] = 0 .. (Width - 1)

\* Every pixel is black and at the far sentinel.
Blank(b, d) ==
    /\ Sized(b, d)
    /\ \A i \in DOMAIN b : b[i] = 0
    /\ \A y \in DOMAIN d : \A x \in DOMAIN d[y] : d[y][x] = F(-1000)

\* No call has been made since Renderer::new or the last clear().
JustCleared == calls = << >>

BuffersStep ==
    /\ Sized(buffer', depth_buffer')
    /\ JustCleared' => Blank(buffer', depth_buffer')

\* C20: after Renderer::new and after every clear(), whatever was drawn before
\* it, the colour buffer has width * height entries, all black (0x000000), and
\* the depth buffer has height rows of width entries, all -1000; no drawing
\* operation changes the size of either buffer.
C20_BuffersReset == Blank(buffer, depth_buffer) /\ [][BuffersStep]_vars

\* Two drawing calls have changed pixels of both buffers, which clear() is
\* about to reset.
C20_Witness ==
    /\ ~panic
    /\ Len(calls) = MaxDraws
    /\ Sized(buffer, depth_buffer)
    /\ \E i \in DOMAIN buffer : buffer[i] # 0
    /\ \E y \in DOMAIN depth_buffer : \E x \in DOMAIN depth_buffer[y] :
           depth_buffer[y][x] # F(-1000)

(* ------------------------------- C21 --------------------------------- *)
\* The faces of the world whose indices are inside the lists of their object,
\* as pairs (object, face).
SoundFaces(w) ==
    UNION {{<< i, j >> : j \in {k \in 1 .. Len(w.objects[i].faces) :
                                    FaceInRange(w.objects[i], w.objects[i].faces[k])}} :
           i \in 1 .. Len(w.objects)}

AllFaces(w) ==
    UNION {{<< i, j >> : j \in 1 .. Len(w.objects[i].faces)} : i \in 1 .. Len(w.objects)}

\* A step that is a render_world call: on cleared buffers, the world left
\* alone.
IsRender == calls = << >> /\ ~panic /\ world' = world

FrameSurvives ==
    IsRender => (~panic' /\ Len(calls') = Cardinality(SoundFaces(world)))

\* C21: render_world never aborts the frame: when a face holds a vertex index
\* or a texture-coordinate index out of range for the lists of its object, at
\* most that triangle is skipped, and every other face of every object is
\* still given to draw_triangle.
C21_Original == [][FrameSurvives]_vars

FrameAborts ==
    IsRender =>
        /\ panic' <=> SoundFaces(world) # AllFaces(world)
        /\ panic' => Len(calls') < Cardinality(AllFaces(world))

\* C21, as the code behaves: the frame is aborted at the first face with an
\* index out of range, and the faces after it are not drawn.
C21_AbortsAtBrokenFace == [][FrameAborts]_vars

(* ------------------------------- C22 --------------------------------- *)
\* A step that is a draw_triangle call, and the vertices it was given.
IsDraw == Len(calls') = Len(calls) + 1 /\ calls'[Len(calls')].op = "draw_triangle"
DrawnVertices == calls'[Len(calls')].args[1]

\* The raster points of the vertices are on one line, or coincide.
Flat(vertices) ==
    LET rp == RasterPoints(vertices)
    IN  ~NonDegenerate(Vec2From(rp[1]), Vec2From(rp[2]), Vec2From(rp[3]))

NoNaNDepth(d) == \A y \in DOMAIN d : \A x \in DOMAIN d[y] : ~IsNaN(d[y][x])

\* Whatever the two quotients by a zero denominator are (0/0, or a rounded
\* numerator over 0), the weights fail the inside test.
ZeroDenominatorOutside ==
    \A v, w \in {NaN, Inf(1), Inf(-1)} :
        ~Inside([u |-> RSub(RSub(F(1), v), w), v |-> v, w |-> w])

FlatDrawsNothing ==
    (IsDraw /\ Flat(DrawnVertices) /\ \A k \in 1 .. 3 : RLt(DrawnVertices[k].z, F(0))) =>
        /\ buffer' = buffer
        /\ depth_buffer' = depth_buffer
        /\ NoNaNDepth(depth_buffer')
        /\ ~panic'
        /\ ZeroDenominatorOutside

\* C22: draw_triangle on a degenerate triangle (raster points on one line or
\* coincident, every z below 0, so that the denominator of get_barycentric is 0)
\* writes no pixel: the colour buffer and the depth buffer are unchanged, and
\* no NaN is stored in the depth buffer.
C22_DegenerateDrawsNothing == [][FlatDrawsNothing]_vars

\* The slanted flat triangle has been given to draw_triangle after a triangle
\* that was drawn: its bounding box is the whole screen, the weights are 0/0 at
\* the pixel (2, 1) on its line and at the pixel (0, 1) off it, and the pixels
\* of the first triangle are still there.
C22_Witness ==
    /\ Len(calls) = 2
    /\ calls[2].args[1] = WithZ(ShapeDiagonal, ZSlope)
    /\ Flat(calls[2].args[1])
    /\ LET rp == RasterPoints(calls[2].args[1])
           box == Box(rp)
           on == GetBarycentric(Vec2From(rp[1]), Vec2From(rp[2]), Vec2From(rp[3]),
                                Vec2(F(2), F(1)))
           off == GetBarycentric(Vec2From(rp[1]), Vec2From(rp[2]), Vec2From(rp[3]),
                                 Vec2(F(0), F(1)))
       IN  /\ box.x_min = 0 /\ box.x_max = Width /\ box.y_min = 0 /\ box.y_max = Height
           /\ IsNaN(on.u) /\ IsNaN(on.v) /\ IsNaN(on.w)
           /\ IsNaN(off.u) /\ IsNaN(off.v) /\ IsNaN(off.w)
    /\ buffer # ClearBuffer
    /\ NoNaNDepth(depth_buffer)

(* ------------------------------- C23 --------------------------------- *)
\* One draw_triangle call has been made since clear(), on a triangle with
\* area whose vertices are all strictly between the far sentinel and 0.
OneDraw ==
    /\ Len(calls) = 1
    /\ calls[1].op = "draw_triangle"
    /\ ~Flat(calls[1].args[1])
    /\ \A k \in 1 .. 3 : /\ RLt(calls[1].args[1][k].z, F(0))
                          /\ RGt(calls[1].args[1][k].z, F(-1000))

\* The weights of the pixel (x, y) against the raster points of the vertices.
PixelWeights(vertices, x, y) ==
    LET rp == RasterPoints(vertices)
    IN  GetBarycentric(Vec2From(rp[1]), Vec2From(rp[2]), Vec2From(rp[3]), Vec2(F(x), F(y)))

NotNegative(bary) == RGe(bary.u, F(0)) /\ RGe(bary.v, F(0)) /\ RGe(bary.w, F(0))

Written(x, y) == depth_buffer[y][x] # F(-1000)

\* C23: after clear() and one draw_triangle on a non-degenerate triangle with
\* every z in (-1000, 0), every pixel of the screen whose weights against the
\* raster triangle are all >= 0 has been written, with the interpolated Z as
\* its depth, pixels on the edges and at the vertices included, and no pixel
\* with a negative weight has been written.
C23_Original ==
    OneDraw =>
        \A y \in 0 .. (Height - 1) : \A x \in 0 .. (Width - 1) :
            LET bary == PixelWeights(calls[1].args[1], x, y)
            IN  IF NotNegative(bary)
                THEN depth_buffer[y][x] = PointExactZ(RasterPoints(calls[1].args[1]), bary)
                ELSE ~Written(x, y)

\* C23, as the code fills: the pixels written are those with weights >= 0 in
\* x_min .. x_max - 1 and y_min .. y_max - 1, the bounds being the truncated
\* coordinates of the raster points clamped to the screen; the column x_max
\* and the row y_max are left out.
C23_HalfOpenBox ==
    OneDraw =>
        \A y \in 0 .. (Height - 1) : \A x \in 0 .. (Width - 1) :
            LET rp == RasterPoints(calls[1].args[1])
                bary == PixelWeights(calls[1].args[1], x, y)
                box == Box(rp)
            IN  IF /\ NotNegative(bary)
                   /\ box.x_min <= x /\ x < box.x_max
                   /\ box.y_min <= y /\ y < box.y_max
                THEN depth_buffer[y][x] = PointExactZ(rp, bary)
                ELSE ~Written(x, y)

(* ------------------------------- C24 --------------------------------- *)
\* The buffers after the draw_triangle calls cs made on cleared buffers, the
\* calls with a vertex at z >= 0 left out.
RECURSIVE Replay(_, _, _)
Replay(st, cs, k) ==
    IF k = Len(cs) THEN st
    ELSE Replay(IF \E j \in 1 .. 3 : RGe(cs[k + 1].args[1][j].z, F(0)) THEN st
                ELSE DrawTriangle(st, cs[k + 1].args[1], cs[k + 1].args[2], cs[k + 1].args[3]),
                cs, k + 1)

\* A face with a vertex at z >= 0 has written nothing.
CulledFacesWriteNothing ==
    LET st == Replay(RState(ClearBuffer, ClearDepth, FALSE, << >>), calls, 0)
    IN  buffer = st.buffer /\ depth_buffer = st.depth_buffer

\* C24: in render_world the z >= 0 cull guards the perspective step: x and y
\* are never divided by a camera-space z of 0, so a vertex at z = 0 reaches no
\* further step with a quotient by 0 for x or y; and a face with any vertex at
\* z >= 0 results in no buffer write.
C24_Original ==
    /\ \A i \in DOMAIN calls : \A k \in 1 .. 3 :
           LET v == calls[i].args[1][k]
           IN  v.z = F(0) => (IsFinite(v.x) /\ IsFinite(v.y))
    /\ CulledFacesWriteNothing

\* C24, as the code orders the steps: render_world divides x and y of every
\* vertex by its camera-space z, also when z is 0, where x and y become
\* infinite or NaN; the z >= 0 cull is made afterwards, by draw_triangle, and a
\* face with any vertex at z >= 0 results in no buffer write.
C24_CullAfterDivision ==
    /\ \A i \in DOMAIN calls : \A k \in 1 .. 3 :
           LET v == calls[i].args[1][k]
           IN  v.z = F(0) => (~IsFinite(v.x) /\ ~IsFinite(v.y))
    /\ CulledFacesWriteNothing

\* A frame of two objects: the last vertex of the first is at camera-space
\* z = 0 and was divided, the face was given to draw_triangle and wrote
\* nothing; the second object was drawn.
C24_Witness ==
    /\ Len(calls) = 2
    /\ ~panic
    /\ calls[1].args[1][3].z = F(0)
    /\ RLt(calls[1].args[1][1].z, F(0))
    /\ IsNaN(calls[1].args[1][3].x) /\ IsInf(calls[1].args[1][3].y)
    /\ \A k \in 1 .. 3 : RLt(calls[2].args[1][k].z, F(0))
    /\ buffer # ClearBuffer
    /\ CulledFacesWriteNothing

(* ------------------------------- C25 --------------------------------- *)
IsLine == returned.op = "draw_line"

\* |b.x - a.x| + |b.y - a.y| + 1.
StepBound(a, b) ==
    RAdd(RAdd(RAbs(RSub(b.x, a.x)), RAbs(RSub(b.y, a.y))), F(1))

\* C25: draw_line(a, b) terminates for every pair of raster points, whose
\* coordinates need not be integers, after at most |b.x - a.x| + |b.y - a.y| + 1
\* steps, and the last position it visits is b.
C25_Original ==
    IsLine =>
        /\ returned.out.how = "done"
        /\ RGe(StepBound(returned.args[1], returned.args[2]), F(returned.out.steps))
        /\ returned.out.x = returned.args[2].x
        /\ returned.out.y = returned.args[2].y

IsWhole(a) == IsFinite(a) /\ a.e = 0 /\ a.d = 1

OnScreen(p) ==
    /\ RGe(p.x, F(0)) /\ RLt(p.x, F(Width))
    /\ RGe(p.y, F(0)) /\ RLt(p.y, F(Height))

\* C25, for the endpoints the loop can end on: when b.x - a.x and b.y - a.y are
\* whole numbers and both points are on the screen, draw_line ends at b within
\* the bound.
C25_WholeDifferences ==
    (/\ IsLine
     /\ IsWhole(RSub(returned.args[2].x, returned.args[1].x))
     /\ IsWhole(RSub(returned.args[2].y, returned.args[1].y))
     /\ OnScreen(returned.args[1]) /\ OnScreen(returned.args[2])) =>
        /\ returned.out.how = "done"
        /\ RGe(StepBound(returned.args[1], returned.args[2]), F(returned.out.steps))
        /\ returned.out.x = returned.args[2].x
        /\ returned.out.y = returned.args[2].y

(* ------------------------------- C26 --------------------------------- *)
FillStaysInRange ==
    IsDraw =>
        /\ ~panic'
        /\ \A i \in DOMAIN sampled' :
               /\ 0 <= sampled'[i].x /\ sampled'[i].x < Width
               /\ 0 <= sampled'[i].y /\ sampled'[i].y < Height

\* C26: for any three vertices, however large or negative their finite
\* coordinates, every buffer access of the fill pass of draw_triangle is made
\* at a pixel with 0 <= x < width and 0 <= y < height: the fill pass never
\* indexes the colour buffer or the depth buffer out of range.
C26_FillInRange == [][FillStaysInRange]_vars

\* The triangle with one vertex of the order of 1/eps to the right has been
\* drawn: its bounding box was clamped to the screen and pixels up to the last
\* column were written.
C26_Witness ==
    /\ ~panic
    /\ Len(calls) = 1
    /\ calls[1].args[1] = WithZ(ShapeHugeVertex, ZNear)
    /\ max3(RasterPoint(calls[1].args[1][1]).x, RasterPoint(calls[1].args[1][2]).x,
            RasterPoint(calls[1].args[1][3]).x) = Saturated
    /\ Box(RasterPoints(calls[1].args[1])).x_max = Width
    /\ \E i \in DOMAIN sampled : sampled[i].x = Width - 1
    /\ buffer # ClearBuffer

(* ------------------------------- C27 --------------------------------- *)
ScreenPixels == (0 .. (Width - 1)) \X (0 .. (Height - 1))

Colour(b, x, y) == b[(Width * y) + x]

\* The depth of no pixel goes down, and every depth is at or above the far
\* sentinel and below 0.
DepthsRise ==
    \A p \in ScreenPixels :
        /\ RGe(depth_buffer'[p[2]][p[1]], depth_buffer[p[2]][p[1]])
        /\ RGe(depth_buffer'[p[2]][p[1]], F(-1000))
        /\ RLt(depth_buffer'[p[2]][p[1]], F(0))

\* No pixel is drawn with an interpolated Z below -1000: a pixel drawn by the
\* call holds a depth at or above it.
NoneDrawnBelowSentinel ==
    \A i \in DOMAIN sampled' :
        RGe(depth_buffer'[sampled'[i].y][sampled'[i].x], F(-1000))

\* C27: between two clear() calls, over any sequence of draw_triangle calls,
\* the depth stored at each pixel never decreases and is always >= -1000 and
\* < 0; a fragment with an interpolated Z below -1000 is never drawn; and a
\* pixel whose depth is the sentinel -1000 has the colour black.
C27_Original ==
    [][IsDraw =>
          /\ DepthsRise
          /\ NoneDrawnBelowSentinel
          /\ \A p \in ScreenPixels :
                 depth_buffer'[p[2]][p[1]] = F(-1000) => Colour(buffer', p[1], p[2]) = 0]_vars

\* Some call since clear() has an inside fragment at the pixel whose
\* interpolated Z is exactly -1000.
FragmentAtSentinel(cs, x, y) ==
    \E i \in DOMAIN cs :
        /\ ~Culled(cs[i].args[1])
        /\ LET bary == PixelWeights(cs[i].args[1], x, y)
           IN  /\ NotNegative(bary)
               /\ PointExactZ(RasterPoints(cs[i].args[1]), bary) = F(-1000)

\* C27, with the fragment at the sentinel set apart: the depths never decrease
\* and stay in [-1000, 0), no fragment below -1000 is drawn, and a pixel whose
\* depth is -1000 is black unless a fragment with an interpolated Z of exactly
\* -1000 was drawn at it.
C27_DepthsRise ==
    [][IsDraw =>
          /\ DepthsRise
          /\ NoneDrawnBelowSentinel
          /\ \A p \in ScreenPixels :
                 (depth_buffer'[p[2]][p[1]] = F(-1000) /\ Colour(buffer', p[1], p[2]) # 0)
                     => FragmentAtSentinel(calls', p[1], p[2])]_vars

\* Two triangles have been drawn since clear(): the first, at z = -1000 all
\* over the screen, left its colour at a pixel whose depth is still -1000; the
\* second raised the depth of another pixel.
C27_Witness ==
    /\ Len(calls) = 2
    /\ ~panic
    /\ calls[1].args[1] = WithZ(ShapeBig, ZSentinel)
    /\ \E p \in ScreenPixels :
           depth_buffer[p[2]][p[1]] = F(-1000) /\ Colour(buffer, p[1], p[2]) # 0
    /\ \E p \in ScreenPixels :
           /\ RGt(depth_buffer[p[2]][p[1]], F(-1000))
           /\ \E i \in DOMAIN sampled : sampled[i].x = p[1] /\ sampled[i].y = p[2]

====
